---- MODULE Spec2Model ----
(***************************************************************************)
(* State-machine model of the trading bots (Mark1, Mark2, Mark4) and of    *)
(* the copilot Backtester of personal_investments.                         *)
(*                                                                         *)
(* Python floats are modelled as exact rationals [n |-> Int, d |-> Nat]    *)
(* kept in lowest terms, so equal values are equal records.  Floating      *)
(* point rounding is outside this model.                                   *)
(***************************************************************************)
EXTENDS Integers, Sequences, FiniteSets, TLC

VARIABLES mark2, feed, bt, mark1, mark1b, mark4, serie, salidas, par, pipe,
          engine, manager

vars == <<mark2, feed, bt, mark1, mark1b, mark4, serie, salidas, par, pipe,
          engine, manager>>

(***************************************************************************)
(* Exact arithmetic standing for Python's float operators.                 *)
(***************************************************************************)
\* Python's None for an optional number (no rational has denominator 0)
None == [n |-> 0, d |-> 0]
\* Python's None for last_action
NoAction == "None"

Abs(x) == IF x < 0 THEN -x ELSE x

RECURSIVE GCD(_, _)
GCD(a, b) == IF b = 0 THEN a ELSE GCD(b, a % b)

Rat(n, d) ==
    LET s == IF d < 0 THEN -1 ELSE 1
        g == GCD(Abs(n), Abs(d))
    IN  [n |-> (s * n) \div g, d |-> (s * d) \div g]

R(i) == [n |-> i, d |-> 1]

\* sums are taken over the least common denominator, which keeps the
\* intermediate products small
RAdd(a, b) ==
    LET g == GCD(a.d, b.d)
    IN  Rat(a.n * (b.d \div g) + b.n * (a.d \div g), a.d * (b.d \div g))
RSub(a, b) ==
    LET g == GCD(a.d, b.d)
    IN  Rat(a.n * (b.d \div g) - b.n * (a.d \div g), a.d * (b.d \div g))
\* quotients cancel common factors before multiplying
RMul(a, b) == Rat(a.n * b.n, a.d * b.d)
RDiv(a, b) ==
    LET g == GCD(Abs(a.n), Abs(b.n))
        h == GCD(a.d, b.d)
    IN  IF g = 0 THEN Rat(a.n * b.d, a.d * b.n)
        ELSE Rat((a.n \div g) * (b.d \div h), (a.d \div h) * (b.n \div g))
RLt(a, b) ==
    LET g == GCD(a.d, b.d)
    IN  a.n * (b.d \div g) < b.n * (a.d \div g)
RGt(a, b) == RLt(b, a)
RPos(a) == a.n > 0
Half == Rat(1, 2)

(***************************************************************************)
(* Bounds of the explored inputs.                                          *)
(***************************************************************************)
\* number of prices fed to a Mark2 bot by the driver loop
MaxTicks == 104
\* first price of a fed series; later prices move by one unit per tick
StartPrice == 200
\* budget the bots are constructed with
Budget0 == 1000

(***************************************************************************)
(* Mark2 (src/Trading/Procesos/Bots/bot_mark2.py)                          *)
(***************************************************************************)
\* deque(maxlen=100)
MAXLEN == 100
\* periods passed to calcular_media_movil / calcular_media_movil_prev
CORTO == 7
MEDIANO == 25
LARGO == 100

RECURSIVE SumSeq(_, _, _)
\* sum(s[lo..hi]) of a sequence of integers
SumSeq(s, lo, hi) == IF lo > hi THEN 0 ELSE s[hi] + SumSeq(s, lo, hi - 1)

\* list(prices)[-k:]
LastK(s, k) == IF Len(s) <= k THEN s ELSE SubSeq(s, Len(s) - k + 1, Len(s))

\* a full deque gives up its newest element
DequeAppend_quita_ultimo(dq, x, maxlen) ==
    IF Len(dq) >= maxlen THEN Append(SubSeq(dq, 1, Len(dq) - 1), x) ELSE Append(dq, x)

\* deque.append on a deque with the given maxlen
DequeAppend(dq, x, maxlen) ==
    IF Len(dq) >= maxlen THEN Append(Tail(dq), x) ELSE Append(dq, x)

Mark2_init(budget) ==
    [ budget_inicial |-> R(budget),
      budget |-> R(budget),
      crypto_balance |-> R(0),
      prices |-> <<>>,
      last_action |-> NoAction,
      ganancia_perdida_acumulada |-> R(0),
      historial_operaciones |-> <<>>,
      precio_compra |-> None,
      current_time |-> 0 ]

agregar_precio(self, precio) ==
    [self EXCEPT !.prices = DequeAppend(@, precio, MAXLEN)]

\* the sum runs over the whole window
calcular_media_movil_ventana_entera(self, periodos) ==
    IF Len(self.prices) < periodos
    THEN None
    ELSE Rat(SumSeq(self.prices, 1, Len(self.prices)), periodos)

calcular_media_movil(self, periodos) ==
    IF Len(self.prices) < periodos
    THEN None
    ELSE LET l == LastK(self.prices, periodos)
         IN  Rat(SumSeq(l, 1, Len(l)), periodos)

\* the newest price is not left out
calcular_media_movil_prev_incluye_ultimo(self, periodos) ==
    IF Len(self.prices) < periodos + 1
    THEN None
    ELSE LET l == LastK(self.prices, periodos)
         IN  Rat(SumSeq(l, 1, Len(l)), periodos)

\* lines 34-39
calcular_media_movil_prev(self, periodos) ==
    IF Len(self.prices) < periodos + 1
    THEN None
    ELSE LET precios_previos == SubSeq(self.prices, 1, Len(self.prices) - 1)
             l == LastK(precios_previos, periodos)
         IN  Rat(SumSeq(l, 1, Len(l)), periodos)

\* the accumulated figure leaves out the units still held
registrar_operacion_sin_no_realizada(self, operacion, precio, cantidad) ==
    LET ganancia_perdida_no_realizada == RMul(self.crypto_balance, R(precio))
        ganancia_perdida_acumulada == RSub(self.budget, self.budget_inicial)
    IN  [self EXCEPT !.historial_operaciones = Append(@,
            [ Fecha |-> self.current_time,
              Operacion |-> operacion,
              Precio |-> precio,
              Cantidad |-> cantidad,
              Budget |-> self.budget,
              Crypto |-> self.crypto_balance,
              NoRealizada |-> ganancia_perdida_no_realizada,
              Acumulada |-> ganancia_perdida_acumulada ])]

\* the new entry is put in front of the recorded ones
registrar_operacion_al_inicio(self, operacion, precio, cantidad) ==
    LET ganancia_perdida_no_realizada == RMul(self.crypto_balance, R(precio))
        ganancia_perdida_acumulada ==
            RSub(RAdd(self.budget, ganancia_perdida_no_realizada), self.budget_inicial)
    IN  [self EXCEPT !.historial_operaciones =
            <<[ Fecha |-> self.current_time,
                Operacion |-> operacion,
                Precio |-> precio,
                Cantidad |-> cantidad,
                Budget |-> self.budget,
                Crypto |-> self.crypto_balance,
                NoRealizada |-> ganancia_perdida_no_realizada,
                Acumulada |-> ganancia_perdida_acumulada ]>> \o @]

\* lines 42-57
registrar_operacion(self, operacion, precio, cantidad) ==
    LET ganancia_perdida_no_realizada == RMul(self.crypto_balance, R(precio))
        ganancia_perdida_acumulada ==
            RSub(RAdd(self.budget, ganancia_perdida_no_realizada), self.budget_inicial)
    IN  [self EXCEPT !.historial_operaciones = Append(@,
            [ Fecha |-> self.current_time,
              Operacion |-> operacion,
              Precio |-> precio,
              Cantidad |-> cantidad,
              Budget |-> self.budget,
              Crypto |-> self.crypto_balance,
              NoRealizada |-> ganancia_perdida_no_realizada,
              Acumulada |-> ganancia_perdida_acumulada ])]

\* the hold path records itself as the last action
avanzar_hora_anota(self) ==
    [self EXCEPT !.current_time = @ + 1, !.last_action = "hold"]

\* lines 73-76 and 155-157: the simulated clock advances one hour
avanzar_hora(self) == [self EXCEPT !.current_time = @ + 1]

comprar_100(self, precio_actual) ==
    LET cantidad_comprada == RDiv(self.budget, R(precio_actual))
    IN  registrar_operacion(
            [self EXCEPT !.precio_compra = R(precio_actual),
                         !.crypto_balance = RAdd(@, cantidad_comprada),
                         !.last_action = "buy",
                         !.budget = R(0)],
            "Compra (100%)", precio_actual, cantidad_comprada)

\* the half buy credits the units of the whole budget
comprar_50_acredita_todo(self, precio_actual) ==
    LET cantidad_comprada == RDiv(self.budget, R(precio_actual))
    IN  registrar_operacion(
            [self EXCEPT !.precio_compra = R(precio_actual),
                         !.crypto_balance = RAdd(@, cantidad_comprada),
                         !.last_action = "buy-50",
                         !.budget = RMul(@, Half)],
            "Compra (50%)", precio_actual, cantidad_comprada)

comprar_50(self, precio_actual) ==
    LET cantidad_comprada == RDiv(RMul(self.budget, Half), R(precio_actual))
    IN  registrar_operacion(
            [self EXCEPT !.precio_compra = R(precio_actual),
                         !.crypto_balance = RAdd(@, cantidad_comprada),
                         !.last_action = "buy-50",
                         !.budget = RMul(@, Half)],
            "Compra (50%)", precio_actual, cantidad_comprada)

vender_100(self, precio_actual) ==
    LET valor_venta == RMul(self.crypto_balance, R(precio_actual))
        cantidad_vendida == self.crypto_balance
    IN  registrar_operacion(
            [self EXCEPT !.budget = RAdd(@, valor_venta),
                         !.last_action = "sell",
                         !.crypto_balance = R(0)],
            "Venta (100%)", precio_actual, cantidad_vendida)

vender_50(self, precio_actual) ==
    LET cantidad_vendida == RMul(self.crypto_balance, Half)
        valor_venta == RMul(cantidad_vendida, R(precio_actual))
    IN  registrar_operacion(
            [self EXCEPT !.budget = RAdd(@, valor_venta),
                         !.last_action = "sell-50",
                         !.crypto_balance = RMul(@, Half)],
            "Venta (50%)", precio_actual, cantidad_vendida)

\* rule 4 sells without asking for units held
regla_vende_sin_saldo(c, m, l, mp, lp, budget, crypto_balance, last_action) ==
    IF RGt(m, l) /\ RLt(mp, lp) /\ RPos(budget) THEN 1
    ELSE IF RGt(c, l) /\ RGt(m, l) /\ RGt(c, m) /\ RPos(budget) THEN 2
    ELSE IF RLt(c, l) /\ RLt(m, l) /\ RGt(c, m) /\ RLt(mp, lp)
            /\ RPos(budget) /\ last_action # "buy-50" THEN 3
    ELSE IF RLt(c, l) /\ RLt(m, l) /\ RLt(c, m) THEN 4
    ELSE IF RLt(m, l) /\ RGt(mp, lp) /\ RPos(crypto_balance) THEN 5
    ELSE IF RGt(c, l) /\ RGt(m, l) /\ RLt(c, m) /\ RGt(mp, lp)
            /\ RPos(crypto_balance) /\ last_action # "sell-50" THEN 6
    ELSE 0

\* the half rules do not look at last_action
regla_sin_guardia_mitad(c, m, l, mp, lp, budget, crypto_balance, last_action) ==
    IF RGt(m, l) /\ RLt(mp, lp) /\ RPos(budget) THEN 1
    ELSE IF RGt(c, l) /\ RGt(m, l) /\ RGt(c, m) /\ RPos(budget) THEN 2
    ELSE IF RLt(c, l) /\ RLt(m, l) /\ RGt(c, m) /\ RLt(mp, lp)
            /\ RPos(budget) THEN 3
    ELSE IF RLt(c, l) /\ RLt(m, l) /\ RLt(c, m) /\ RPos(crypto_balance) THEN 4
    ELSE IF RLt(m, l) /\ RGt(mp, lp) /\ RPos(crypto_balance) THEN 5
    ELSE IF RGt(c, l) /\ RGt(m, l) /\ RLt(c, m) /\ RGt(mp, lp)
            /\ RPos(crypto_balance) THEN 6
    ELSE 0

\* The rule chosen by lines 79-152 for the given indicator values:
\* 1..6 in source order, 0 when no condition holds.
regla(c, m, l, mp, lp, budget, crypto_balance, last_action) ==
    IF RGt(m, l) /\ RLt(mp, lp) /\ RPos(budget) THEN 1
    ELSE IF RGt(c, l) /\ RGt(m, l) /\ RGt(c, m) /\ RPos(budget) THEN 2
    ELSE IF RLt(c, l) /\ RLt(m, l) /\ RGt(c, m) /\ RLt(mp, lp)
            /\ RPos(budget) /\ last_action # "buy-50" THEN 3
    ELSE IF RLt(c, l) /\ RLt(m, l) /\ RLt(c, m) /\ RPos(crypto_balance) THEN 4
    ELSE IF RLt(m, l) /\ RGt(mp, lp) /\ RPos(crypto_balance) THEN 5
    ELSE IF RGt(c, l) /\ RGt(m, l) /\ RLt(c, m) /\ RGt(mp, lp)
            /\ RPos(crypto_balance) /\ last_action # "sell-50" THEN 6
    ELSE 0

aplicar_regla(self, r, precio_actual) ==
    CASE r = 1 -> comprar_100(self, precio_actual)
      [] r = 2 -> comprar_100(self, precio_actual)
      [] r = 3 -> comprar_50(self, precio_actual)
      [] r = 4 -> vender_100(self, precio_actual)
      [] r = 5 -> vender_100(self, precio_actual)
      [] r = 6 -> vender_50(self, precio_actual)
      [] OTHER -> avanzar_hora(self)

\* lines 78-157: the decision taken for the five averages of lines 62-66
decidir_con_medias(self, mm_corto, mm_mediano, mm_largo, mm_mediano_prev, mm_largo_prev, precio_actual) ==
    aplicar_regla(self,
        regla(mm_corto, mm_mediano, mm_largo, mm_mediano_prev, mm_largo_prev,
              self.budget, self.crypto_balance, self.last_action),
        precio_actual)

tomar_decision(self, precio_actual) ==
    LET mm_corto == calcular_media_movil(self, CORTO)
        mm_mediano == calcular_media_movil(self, MEDIANO)
        mm_largo == calcular_media_movil(self, LARGO)
        mm_mediano_prev == calcular_media_movil_prev(self, MEDIANO)
        mm_largo_prev == calcular_media_movil_prev(self, LARGO)
    IN  IF \/ mm_corto = None
           \/ mm_mediano = None
           \/ mm_largo = None
           \/ mm_mediano_prev = None
           \/ mm_largo_prev = None
        THEN avanzar_hora(self)
        ELSE decidir_con_medias(self, mm_corto, mm_mediano, mm_largo,
                                mm_mediano_prev, mm_largo_prev, precio_actual)

(***************************************************************************)
(* The rule chain of tomar_decision taken as a function of the five        *)
(* averages: the averages and the price of each tick are inputs, so every  *)
(* rule of lines 79-152 is exercised from the states its trades lead to.   *)
(***************************************************************************)
\* ledger entries and hold ticks of an explored run
MaxOps == 3
MaxHolds == 2

MediaVals == {1, 2, 3}
PrevVals == {1, 2}
ReglaPrecios == {1, 2}

ReglasDecidir ==
    /\ Len(mark2.historial_operaciones) < MaxOps
    /\ mark2.current_time < MaxHolds
    /\ \E c \in MediaVals, m \in MediaVals, l \in MediaVals,
          mp \in PrevVals, lp \in PrevVals, precio \in ReglaPrecios :
          mark2' = decidir_con_medias(mark2, R(c), R(m), R(l), R(mp), R(lp), precio)
    /\ UNCHANGED <<feed, bt, mark1, mark1b, mark4, serie, salidas, par, pipe, engine, manager>>

(***************************************************************************)
(* Backtester (src/copilot/backtest/backtester.py)                         *)
(*                                                                         *)
(* A frame is a sequence of rows [close_price, signal]; the signal column  *)
(* is what strategy.generate_signals added.  The row index stands for the  *)
(* row's open_time.  The fields strategy, data and results hold <<>> for    *)
(* Python's None; data is the frame's price column and strategy stands for  *)
(* the strategy object by the signal column it generates.  calls and        *)
(* run_arg record the calls of run and the frame of the latest one.         *)
(***************************************************************************)
\* rows of the longest frame handed to run
MaxRows == 4

BtPrices == {2, 3}
Signals == {-1, 0, 1}
Rates == {R(0), Rat(1, 4)}
One == R(1)

Rows == [close_price : BtPrices, signal : Signals]

RECURSIVE FramesOfLen(_)
FramesOfLen(n) ==
    IF n = 0 THEN {<<>>}
    ELSE {Append(f, r) : f \in FramesOfLen(n - 1), r \in Rows}

Frames == UNION {FramesOfLen(n) : n \in 0..MaxRows}

Backtester_init(initial_balance, commission, slippage) ==
    [ initial_balance |-> initial_balance,
      commission |-> commission,
      slippage |-> slippage,
      strategy |-> <<>>,
      data |-> <<>>,
      results |-> <<>>,
      raised |-> "",
      calls |-> 0,
      run_arg |-> <<>>,
      pc |-> "idle",
      df |-> <<>>,
      i |-> 0,
      balance |-> R(0),
      crypto_balance |-> R(0),
      position |-> 0,
      trades |-> <<>>,
      equity_curve |-> <<>> ]

\* line 113
buy_execution_price(close_price, slippage) ==
    RMul(R(close_price), RAdd(One, slippage))

\* line 114
buy_units(balance, commission, execution_price) ==
    RDiv(RMul(balance, RSub(One, commission)), execution_price)

\* lines 131 and 147
sell_execution_price(close_price, slippage) ==
    RMul(R(close_price), RSub(One, slippage))

\* the proceeds of a sale lose no commission
sell_balance_sin_comision(crypto_balance, commission, execution_price) ==
    RMul(crypto_balance, execution_price)

\* lines 132 and 148
sell_balance(crypto_balance, commission, execution_price) ==
    RMul(RMul(crypto_balance, execution_price), RSub(One, commission))

Trade(type, price, timestamp, balance, crypto_balance) ==
    [ type |-> type, price |-> price, timestamp |-> timestamp,
      balance |-> balance, crypto_balance |-> crypto_balance ]

\* lines 103-107
\* lines 103-107: the equity of the row, before its signal acts
current_equity(self, row) ==
    IF self.position = 1
    THEN RMul(self.crypto_balance, R(row.close_price))
    ELSE self.balance

\* a row without a buy signal sells the open position (signal <= 0)
take_signal_vende_en_cero(self, row, idx) ==
    IF row.signal = 1 /\ self.position = 0
    THEN IF RPos(self.balance)
         THEN LET execution_price == buy_execution_price(row.close_price, self.slippage)
                  crypto_balance == buy_units(self.balance, self.commission, execution_price)
              IN  [self EXCEPT
                      !.trades = Append(@, Trade("buy", execution_price, idx,
                                                 self.balance, crypto_balance)),
                      !.crypto_balance = crypto_balance,
                      !.balance = R(0),
                      !.position = 1]
         ELSE self
    ELSE IF row.signal <= 0 /\ self.position = 1
    THEN IF RPos(self.crypto_balance)
         THEN LET execution_price == sell_execution_price(row.close_price, self.slippage)
                  balance == sell_balance(self.crypto_balance, self.commission,
                                          execution_price)
              IN  [self EXCEPT
                      !.trades = Append(@, Trade("sell", execution_price, idx,
                                                 balance, self.crypto_balance)),
                      !.balance = balance,
                      !.crypto_balance = R(0),
                      !.position = 0]
         ELSE self
    ELSE self

\* a row without a sell signal buys when flat (signal >= 0)
take_signal_compra_en_cero(self, row, idx) ==
    IF row.signal >= 0 /\ self.position = 0
    THEN IF RPos(self.balance)
         THEN LET execution_price == buy_execution_price(row.close_price, self.slippage)
                  crypto_balance == buy_units(self.balance, self.commission, execution_price)
              IN  [self EXCEPT
                      !.trades = Append(@, Trade("buy", execution_price, idx,
                                                 self.balance, crypto_balance)),
                      !.crypto_balance = crypto_balance,
                      !.balance = R(0),
                      !.position = 1]
         ELSE self
    ELSE IF row.signal = -1 /\ self.position = 1
    THEN IF RPos(self.crypto_balance)
         THEN LET execution_price == sell_execution_price(row.close_price, self.slippage)
                  balance == sell_balance(self.crypto_balance, self.commission,
                                          execution_price)
              IN  [self EXCEPT
                      !.trades = Append(@, Trade("sell", execution_price, idx,
                                                 balance, self.crypto_balance)),
                      !.balance = balance,
                      !.crypto_balance = R(0),
                      !.position = 0]
         ELSE self
    ELSE self

\* lines 109-143: the row's signal acts on cash, units, position and trades
take_signal(self, row, idx) ==
    IF row.signal = 1 /\ self.position = 0
    THEN IF RPos(self.balance)
         THEN LET execution_price == buy_execution_price(row.close_price, self.slippage)
                  crypto_balance == buy_units(self.balance, self.commission, execution_price)
              IN  [self EXCEPT
                      !.trades = Append(@, Trade("buy", execution_price, idx,
                                                 self.balance, crypto_balance)),
                      !.crypto_balance = crypto_balance,
                      !.balance = R(0),
                      !.position = 1]
         ELSE self
    ELSE IF row.signal = -1 /\ self.position = 1
    THEN IF RPos(self.crypto_balance)
         THEN LET execution_price == sell_execution_price(row.close_price, self.slippage)
                  balance == sell_balance(self.crypto_balance, self.commission,
                                          execution_price)
              IN  [self EXCEPT
                      !.trades = Append(@, Trade("sell", execution_price, idx,
                                                 balance, self.crypto_balance)),
                      !.balance = balance,
                      !.crypto_balance = R(0),
                      !.position = 0]
         ELSE self
    ELSE self

\* the equity value is appended after the row's signal has acted
execute_row_equity_despues(self) ==
    LET row == self.df[self.i]
        acted == take_signal(self, row, self.i)
    IN  [acted EXCEPT !.equity_curve = Append(@, current_equity(acted, row)),
                      !.i = @ + 1]

\* lines 101-143: one iteration of the loop over the rows
execute_row(self) ==
    LET row == self.df[self.i]
        appended == [self EXCEPT !.equity_curve = Append(@, current_equity(self, row))]
    IN  [take_signal(appended, row, self.i) EXCEPT !.i = @ + 1]

\* the open position is dropped without a closing sale
close_open_position_sin_venta(self) ==
    IF self.position = 1
    THEN [self EXCEPT !.position = 0, !.crypto_balance = R(0)]
    ELSE self

\* the closing sale is recorded whether or not a position is open
close_open_position_siempre(self) ==
    LET n == Len(self.df)
        final_price == sell_execution_price(self.df[n].close_price, self.slippage)
        balance == IF self.position = 1
                   THEN sell_balance(self.crypto_balance, self.commission, final_price)
                   ELSE self.balance
    IN  [self EXCEPT
            !.balance = balance,
            !.trades = Append(@, Trade("sell", final_price, n,
                                       balance, self.crypto_balance))]

\* lines 145-155
close_open_position(self) ==
    IF self.position = 1
    THEN LET n == Len(self.df)
             final_price == sell_execution_price(self.df[n].close_price, self.slippage)
             balance == sell_balance(self.crypto_balance, self.commission, final_price)
         IN  [self EXCEPT
                 !.balance = balance,
                 !.trades = Append(@, Trade("sell", final_price, n,
                                            balance, self.crypto_balance))]
    ELSE self

(***************************************************************************)
(* PerformanceMetrics (src/copilot/backtest/metrics.py).  The static       *)
(* methods take the equity curve and the trade list by reference.  The     *)
(* entries volatility and sharpe_ratio of calculate_metrics are standard   *)
(* deviations of the returns (a square root) and have no exact rational     *)
(* value; they are left out of the returned record.                        *)
(***************************************************************************)
RAbs(a) == [n |-> Abs(a.n), d |-> a.d]

RECURSIVE running_max(_, _)
\* line 105: equity_curve.expanding().max() at position k
running_max(equity_curve, k) ==
    IF k = 1 THEN equity_curve[1]
    ELSE LET m == running_max(equity_curve, k - 1)
         IN  IF RGt(equity_curve[k], m) THEN equity_curve[k] ELSE m

\* line 106: (cumulative - running_max) / running_max at position k
drawdown(equity_curve, k) ==
    LET m == running_max(equity_curve, k)
    IN  RDiv(RSub(equity_curve[k], m), m)

RECURSIVE drawdown_min(_, _)
\* line 107: drawdown.min() over the positions 1..k
drawdown_min(equity_curve, k) ==
    IF k = 1 THEN drawdown(equity_curve, 1)
    ELSE LET m == drawdown_min(equity_curve, k - 1)
             d == drawdown(equity_curve, k)
         IN  IF RLt(d, m) THEN d ELSE m

\* lines 90-107
calculate_max_drawdown(equity_curve) ==
    IF Len(equity_curve) = 0 THEN R(0)
    ELSE RAbs(drawdown_min(equity_curve, Len(equity_curve)))

\* lines 13-65, on a non-empty equity curve (an empty one returns {})
calculate_metrics(equity_curve, trades, initial_balance) ==
    LET final_balance == equity_curve[Len(equity_curve)]
        total_return == RDiv(RSub(final_balance, initial_balance), initial_balance)
        max_drawdown == calculate_max_drawdown(equity_curve)
    IN  [ total_return |-> total_return,
          total_return_pct |-> RMul(total_return, R(100)),
          max_drawdown |-> max_drawdown,
          max_drawdown_pct |-> RMul(max_drawdown, R(100)),
          num_trades |-> Len(trades),
          final_balance |-> final_balance ]

\* lines 177 and 204: the pair test of the loops over range(0, len - 1, 2)
is_buy_sell_pair(trades, i) ==
    i + 1 <= Len(trades) /\ trades[i].type = "buy" /\ trades[i + 1].type = "sell"

RECURSIVE win_rate_loop(_, _, _)
\* lines 176-180, from the (1-based) index i on
win_rate_loop(trades, i, acc) ==
    IF i > Len(trades) - 1 THEN acc
    ELSE win_rate_loop(trades, i + 2,
            IF is_buy_sell_pair(trades, i)
            THEN [ winning_trades |-> acc.winning_trades +
                       (IF RGt(trades[i + 1].balance, trades[i].balance) THEN 1 ELSE 0),
                   total_pairs |-> acc.total_pairs + 1 ]
            ELSE acc)

\* a round trip that breaks even counts as won
calculate_win_rate_mayor_igual(trades) ==
    IF Len(trades) < 2 THEN R(0)
    ELSE LET pares == {i \in 1..(Len(trades) - 1) :
                          i % 2 = 1 /\ is_buy_sell_pair(trades, i)}
             ganados == {i \in pares : ~RLt(trades[i + 1].balance, trades[i].balance)}
         IN  IF pares # {} THEN Rat(Cardinality(ganados), Cardinality(pares))
             ELSE R(0)

\* lines 161-185
calculate_win_rate(trades) ==
    IF Len(trades) < 2 THEN R(0)
    ELSE LET acc == win_rate_loop(trades, 1, [winning_trades |-> 0, total_pairs |-> 0])
         IN  IF acc.total_pairs > 0 THEN Rat(acc.winning_trades, acc.total_pairs)
             ELSE R(0)

RECURSIVE profit_factor_loop(_, _, _)
\* lines 203-209, from the (1-based) index i on
profit_factor_loop(trades, i, acc) ==
    IF i > Len(trades) - 1 THEN acc
    ELSE profit_factor_loop(trades, i + 2,
            IF is_buy_sell_pair(trades, i)
            THEN LET pnl == RSub(trades[i + 1].balance, trades[i].balance)
                 IN  IF RPos(pnl)
                     THEN [acc EXCEPT !.gross_profit = RAdd(@, pnl)]
                     ELSE [acc EXCEPT !.gross_loss = RAdd(@, RAbs(pnl))]
            ELSE acc)

\* without a loss the gross profit itself is returned
calculate_profit_factor_sin_perdida(trades) ==
    IF Len(trades) < 2 THEN R(0)
    ELSE LET acc == profit_factor_loop(trades, 1,
                        [gross_profit |-> R(0), gross_loss |-> R(0)])
         IN  IF RPos(acc.gross_loss) THEN RDiv(acc.gross_profit, acc.gross_loss)
             ELSE acc.gross_profit

\* lines 187-212
calculate_profit_factor(trades) ==
    IF Len(trades) < 2 THEN R(0)
    ELSE LET acc == profit_factor_loop(trades, 1,
                        [gross_profit |-> R(0), gross_loss |-> R(0)])
         IN  IF RPos(acc.gross_loss) THEN RDiv(acc.gross_profit, acc.gross_loss)
             ELSE R(0)

\* the call removes the first entry of the trade list it was given
PerformanceMetrics_llamar_consume(results) ==
    [ results |-> [results EXCEPT !.trades = IF @ = <<>> THEN @ ELSE Tail(@)],
      salida |-> [ metrics |-> calculate_metrics(results.equity_curve, results.trades,
                                                 results.initial_balance),
                   win_rate |-> calculate_win_rate(results.trades),
                   profit_factor |-> calculate_profit_factor(results.trades) ] ]

\* the three static methods applied to the equity curve and the trade list
\* of a result: what the result holds afterwards and what the calls returned
PerformanceMetrics_llamar(results) ==
    [ results |-> results,
      salida |-> [ metrics |-> calculate_metrics(results.equity_curve, results.trades,
                                                 results.initial_balance),
                   win_rate |-> calculate_win_rate(results.trades),
                   profit_factor |-> calculate_profit_factor(results.trades) ] ]

\* lines 157-173
results_of(self) ==
    [ initial_balance |-> self.initial_balance,
      final_balance |-> self.balance,
      profit_loss |-> RSub(self.balance, self.initial_balance),
      profit_loss_pct |-> RMul(RDiv(RSub(self.balance, self.initial_balance),
                                    self.initial_balance), R(100)),
      num_trades |-> Len(self.trades),
      trades |-> self.trades,
      equity_curve |-> self.equity_curve,
      metrics |-> calculate_metrics(self.equity_curve, self.trades,
                                    self.initial_balance) ]

PriceColumn(df) == [k \in 1..Len(df) |-> df[k].close_price]
SignalColumn(df) == [k \in 1..Len(df) |-> df[k].signal]

\* set_strategy runs before load_data raises
run_start_estrategia_antes(self, df) ==
    IF df = <<>>
    THEN [self EXCEPT !.calls = @ + 1, !.run_arg = df,
                      !.strategy = SignalColumn(df),
                      !.raised = "BacktestError"]
    ELSE [self EXCEPT
             !.calls = @ + 1,
             !.run_arg = df,
             !.data = PriceColumn(df),
             !.strategy = SignalColumn(df),
             !.raised = "",
             !.pc = "loop",
             !.df = df,
             !.i = 1,
             !.balance = self.initial_balance,
             !.crypto_balance = R(0),
             !.position = 0,
             !.trades = <<>>,
             !.equity_curve = <<>>]

\* lines 63-80 and 94-99: run(df, strategy) up to the first row of the loop;
\* load_data (lines 41-43) raises on an empty frame before anything is stored
run_start(self, df) ==
    IF df = <<>>
    THEN [self EXCEPT !.calls = @ + 1, !.run_arg = df, !.raised = "BacktestError"]
    ELSE [self EXCEPT
             !.calls = @ + 1,
             !.run_arg = df,
             !.data = PriceColumn(df),
             !.strategy = SignalColumn(df),
             !.raised = "",
             !.pc = "loop",
             !.df = df,
             !.i = 1,
             !.balance = self.initial_balance,
             !.crypto_balance = R(0),
             !.position = 0,
             !.trades = <<>>,
             !.equity_curve = <<>>]

\* lines 145-173 and 80-82: the loop is over, the results are stored
run_finish(self) ==
    LET closed == close_open_position(self)
    IN  [closed EXCEPT !.results = <<results_of(closed)>>, !.pc = "done"]

BtRun ==
    /\ bt.pc = "idle" /\ bt.raised = ""
    /\ \E df \in Frames : bt' = run_start(bt, df)
    /\ UNCHANGED <<mark2, feed, mark1, mark1b, mark4, serie, salidas, par, pipe, engine, manager>>

BtRow ==
    /\ bt.pc = "loop" /\ bt.i <= Len(bt.df)
    /\ bt' = execute_row(bt)
    /\ UNCHANGED <<mark2, feed, mark1, mark1b, mark4, serie, salidas, par, pipe, engine, manager>>

BtFinish ==
    /\ bt.pc = "loop" /\ bt.i > Len(bt.df)
    /\ bt' = run_finish(bt)
    /\ UNCHANGED <<mark2, feed, mark1, mark1b, mark4, serie, salidas, par, pipe, engine, manager>>

\* run called again on a backtester that holds the results of a run
RerunFrames == {<<>>} \cup FramesOfLen(1)

BtRerun ==
    /\ bt.pc = "done" /\ bt.raised = "" /\ bt.calls = 1
    /\ \E df \in RerunFrames : bt' = run_start(bt, df)
    /\ UNCHANGED <<mark2, feed, mark1, mark1b, mark4, serie, salidas, par, pipe, engine, manager>>

RECURSIVE RSum(_)
\* sum(...) of a list of floats
RSum(l) == IF l = <<>> THEN R(0) ELSE RAdd(l[1], RSum(Tail(l)))

RECURSIVE RMax(_)
\* max(...) of a non-empty list of floats
RMax(l) ==
    IF Len(l) = 1 THEN l[1]
    ELSE LET m == RMax(Tail(l)) IN IF RGt(l[1], m) THEN l[1] ELSE m

RECURSIVE RMin(_)
\* min(...) of a non-empty list of floats
RMin(l) ==
    IF Len(l) = 1 THEN l[1]
    ELSE LET m == RMin(Tail(l)) IN IF RLt(l[1], m) THEN l[1] ELSE m

\* np.mean of a non-empty list of floats
RMean(l) == RDiv(RSum(l), R(Len(l)))

\* the pnl of a pair measured on the prices of its two trades
trade_pair_sobre_precios(buy_trade, sell_trade) ==
    LET pnl == RSub(sell_trade.price, buy_trade.price)
    IN  [ buy_price |-> buy_trade.price,
          sell_price |-> sell_trade.price,
          pnl |-> pnl,
          pnl_pct |-> RMul(RDiv(pnl, buy_trade.balance), R(100)),
          buy_timestamp |-> buy_trade.timestamp,
          sell_timestamp |-> sell_trade.timestamp ]

\* backtester.py lines 201-213: the entry of one buy-sell pair
trade_pair(buy_trade, sell_trade) ==
    LET pnl == RSub(sell_trade.balance, buy_trade.balance)
    IN  [ buy_price |-> buy_trade.price,
          sell_price |-> sell_trade.price,
          pnl |-> pnl,
          pnl_pct |-> RMul(RDiv(pnl, buy_trade.balance), R(100)),
          buy_timestamp |-> buy_trade.timestamp,
          sell_timestamp |-> sell_trade.timestamp ]

RECURSIVE trade_pairs_loop(_, _)
\* lines 198-213: for i in range(0, len(trades) - 1, 2), from the (1-based)
\* index i on
trade_pairs_loop(trades, i) ==
    IF i > Len(trades) - 1 THEN <<>>
    ELSE (IF is_buy_sell_pair(trades, i)
          THEN <<trade_pair(trades[i], trades[i + 1])>> ELSE <<>>)
         \o trade_pairs_loop(trades, i + 2)

\* lines 184-232: <<>> stands for the empty dictionary, <<d>> for the
\* dictionary d
get_trade_analysis(self) ==
    IF self.results = <<>> \/ self.results[1].trades = <<>> THEN <<>>
    ELSE LET trade_pairs == trade_pairs_loop(self.results[1].trades, 1)
             pnls == [k \in 1..Len(trade_pairs) |-> trade_pairs[k].pnl]
             winning_trades == SelectSeq(pnls, LAMBDA x : RPos(x))
             losing_trades == SelectSeq(pnls, LAMBDA x : ~RPos(x))
         IN  IF trade_pairs = <<>> THEN <<>>
             ELSE << [ total_trades |-> Len(trade_pairs),
                       winning_trades |-> Len(winning_trades),
                       losing_trades |-> Len(losing_trades),
                       win_rate |-> Rat(Len(winning_trades), Len(trade_pairs)),
                       avg_win |-> IF winning_trades # <<>> THEN RMean(winning_trades)
                                   ELSE R(0),
                       avg_loss |-> IF losing_trades # <<>> THEN RMean(losing_trades)
                                    ELSE R(0),
                       largest_win |-> RMax(pnls),
                       largest_loss |-> RMin(pnls),
                       trade_pairs |-> trade_pairs ] >>

\* get_trade_analysis called on the backtester after its run
BtGetTradeAnalysis ==
    /\ bt.pc = "done" /\ bt.raised = ""
    /\ salidas = <<>>
    /\ salidas' = <<[analysis |-> get_trade_analysis(bt)]>>
    /\ UNCHANGED <<mark2, feed, bt, mark1, mark1b, mark4, serie, par, pipe, engine, manager>>

\* metric calls made on the results of one run
MaxLlamadas == 2

\* PerformanceMetrics applied once more to the results the backtester holds
BtAnalizar ==
    /\ bt.pc = "done" /\ bt.raised = ""
    /\ Len(salidas) < MaxLlamadas
    /\ LET r == PerformanceMetrics_llamar(bt.results[1])
       IN  /\ bt' = [bt EXCEPT !.results = <<r.results>>]
           /\ salidas' = Append(salidas, r.salida)
    /\ UNCHANGED <<mark2, feed, mark1, mark1b, mark4, serie, par, pipe, engine, manager>>

BtInit ==
    \E c \in Rates, sl \in Rates : bt = Backtester_init(R(Budget0), c, sl)

\* configurations with a rate outside [0, 1)
BadRates == {Rat(-1, 4), R(1)}

BtInitBad ==
    \E c \in Rates \cup BadRates, sl \in Rates \cup BadRates :
        /\ c \in BadRates \/ sl \in BadRates
        /\ bt = Backtester_init(R(Budget0), c, sl)

(***************************************************************************)
(* Mark1 (src/Trading/acciones/Bot_trading.py), Mark1 with the lists of    *)
(* previous averages (src/Trading/acciones/bot_mark1.py, here Mark1b) and  *)
(* Mark4 (src/Trading/acciones/bot_mark4.py).  A call that raised leaves   *)
(* the exception's name in the field raised.                               *)
(***************************************************************************)
\* constructor arguments of the explored bots
BotCorto == 2
BotLargo == 3
RsiLimit == 70
\* prices fed to the explored bots
MaxBotTicks == 7
\* list(self.prices)[-14:]
RSI_N == 14

BotPrices == {1, 2, 3}

Mark1_init(budget, corto, largo) ==
    [ budget |-> R(budget),
      budget_inicial |-> R(budget),
      corto |-> corto,
      largo |-> largo,
      crypto_balance |-> R(0),
      prices |-> <<>>,
      last_action |-> NoAction,
      ganancia_perdida_acumulada |-> R(0),
      rendimiento_porcentaje |-> R(0),
      historial_operaciones |-> <<>>,
      precio_compra |-> None,
      raised |-> "" ]

Mark1b_init(budget, corto, largo) ==
    [ budget |-> R(budget),
      budget_inicial |-> R(budget),
      corto |-> corto,
      largo |-> largo,
      crypto_balance |-> R(0),
      prices |-> <<>>,
      mm_corto_list |-> <<>>,
      mm_largo_list |-> <<>>,
      last_action |-> NoAction,
      ganancia_perdida_acumulada |-> R(0),
      rendimiento_porcentaje |-> R(0),
      historial_operaciones |-> <<>>,
      precio_compra |-> None,
      raised |-> "" ]

Mark4_init(budget, corto, mediano, largo, rsi_limit) ==
    [ budget |-> R(budget),
      budget_inicial |-> R(budget),
      corto |-> corto,
      mediano |-> mediano,
      largo |-> largo,
      rsi_limit |-> R(rsi_limit),
      crypto_balance |-> R(0),
      prices |-> <<>>,
      last_action |-> NoAction,
      ganancia_perdida_acumulada |-> R(0),
      rendimiento_porcentaje |-> R(0),
      historial_operaciones |-> <<>>,
      precio_compra |-> None,
      raised |-> "" ]

\* deque(maxlen=largo).append
Bot_agregar_precio(self, precio) ==
    [self EXCEPT !.prices = DequeAppend(@, precio, self.largo)]

Bot_calcular_media_movil(self, periodos) ==
    IF Len(self.prices) < periodos
    THEN None
    ELSE LET l == LastK(self.prices, periodos)
         IN  Rat(SumSeq(l, 1, Len(l)), periodos)

Bot_registrar_operacion(self, operacion, precio, cantidad) ==
    [self EXCEPT !.historial_operaciones = Append(@,
        [ Operacion |-> operacion,
          Precio |-> precio,
          Cantidad |-> cantidad,
          Budget |-> self.budget,
          Crypto |-> self.crypto_balance,
          Acumulada |-> self.ganancia_perdida_acumulada,
          Rendimiento |-> self.rendimiento_porcentaje ])]

\* the buy leaves the budget as it was
Bot_comprar_sin_gastar(self, precio_actual) ==
    LET crypto_balance == RDiv(self.budget, R(precio_actual))
    IN  Bot_registrar_operacion(
            [self EXCEPT !.crypto_balance = crypto_balance,
                         !.precio_compra = R(precio_actual),
                         !.last_action = "buy"],
            "Compra", precio_actual, crypto_balance)

\* "Comprar todo el budget"
Bot_comprar(self, precio_actual) ==
    LET crypto_balance == RDiv(self.budget, R(precio_actual))
    IN  Bot_registrar_operacion(
            [self EXCEPT !.crypto_balance = crypto_balance,
                         !.precio_compra = R(precio_actual),
                         !.budget = R(0),
                         !.last_action = "buy"],
            "Compra", precio_actual, crypto_balance)

\* the sale keeps the units and the last action
Bot_vender_conserva(self, precio_actual) ==
    LET valor_venta == RMul(self.crypto_balance, R(precio_actual))
        ganancia_perdida ==
            RSub(valor_venta, RMul(self.precio_compra, self.crypto_balance))
        acumulada == RAdd(self.ganancia_perdida_acumulada, ganancia_perdida)
        cantidad_vendida == self.crypto_balance
    IN  Bot_registrar_operacion(
            [self EXCEPT !.ganancia_perdida_acumulada = acumulada,
                         !.rendimiento_porcentaje = RDiv(acumulada, self.budget_inicial),
                         !.budget = valor_venta],
            "Venta", precio_actual, cantidad_vendida)

\* the sale's result replaces the accumulated one
Bot_vender_sin_acumular(self, precio_actual) ==
    LET valor_venta == RMul(self.crypto_balance, R(precio_actual))
        ganancia_perdida ==
            RSub(valor_venta, RMul(self.precio_compra, self.crypto_balance))
        acumulada == ganancia_perdida
        cantidad_vendida == self.crypto_balance
    IN  Bot_registrar_operacion(
            [self EXCEPT !.ganancia_perdida_acumulada = acumulada,
                         !.rendimiento_porcentaje = RDiv(acumulada, self.budget_inicial),
                         !.budget = valor_venta,
                         !.crypto_balance = R(0),
                         !.last_action = "sell"],
            "Venta", precio_actual, cantidad_vendida)

\* "Vender todo"
Bot_vender(self, precio_actual) ==
    LET valor_venta == RMul(self.crypto_balance, R(precio_actual))
        ganancia_perdida ==
            RSub(valor_venta, RMul(self.precio_compra, self.crypto_balance))
        acumulada == RAdd(self.ganancia_perdida_acumulada, ganancia_perdida)
        cantidad_vendida == self.crypto_balance
    IN  Bot_registrar_operacion(
            [self EXCEPT !.ganancia_perdida_acumulada = acumulada,
                         !.rendimiento_porcentaje = RDiv(acumulada, self.budget_inicial),
                         !.budget = valor_venta,
                         !.crypto_balance = R(0),
                         !.last_action = "sell"],
            "Venta", precio_actual, cantidad_vendida)

Mark1_tomar_decision(self, precio_actual) ==
    LET mm_corto == Bot_calcular_media_movil(self, self.corto)
        mm_mediano == Bot_calcular_media_movil(self, self.largo)
    IN  IF mm_corto = None \/ mm_mediano = None
        THEN self
        ELSE IF RGt(mm_corto, mm_mediano) /\ RPos(self.budget) /\ self.last_action # "buy"
        THEN Bot_comprar(self, precio_actual)
        ELSE IF RLt(mm_corto, mm_mediano) /\ RPos(self.crypto_balance)
                /\ self.last_action # "sell"
        THEN Bot_vender(self, precio_actual)
        ELSE self

Mark1b_tomar_decision(self, precio_actual) ==
    LET mm_corto == Bot_calcular_media_movil(self, self.corto)
        mm_largo == Bot_calcular_media_movil(self, self.largo)
        s1 == [self EXCEPT !.mm_corto_list = DequeAppend(@, mm_corto, 2),
                           !.mm_largo_list = DequeAppend(@, mm_largo, 2)]
    IN  IF Len(s1.mm_corto_list) < 2
        THEN [s1 EXCEPT !.raised = "IndexError"]
        ELSE
        LET mm_corto_prev == s1.mm_corto_list[Len(s1.mm_corto_list) - 1]
            mm_largo_prev == s1.mm_largo_list[Len(s1.mm_largo_list) - 1]
            s2 == IF s1.last_action = "buy" /\ RPos(s1.crypto_balance)
                     /\ RGt(mm_corto_prev, mm_largo_prev) /\ RLt(mm_corto, mm_largo)
                  THEN Bot_vender(s1, precio_actual)
                  ELSE s1
        IN  IF mm_corto_prev = None \/ mm_largo_prev = None
            THEN s1
            ELSE IF RPos(s2.budget) /\ RLt(mm_corto_prev, mm_largo_prev)
                    /\ RGt(mm_corto, mm_largo)
            THEN Bot_comprar(s2, precio_actual)
            ELSE s2

RECURSIVE SumGanancias(_, _)
\* sum(x if x > 0 else 0 for x in cambios), cambios[i] = lista[i] - lista[i-1]
SumGanancias(lista, i) ==
    IF i < 2 THEN 0
    ELSE (IF lista[i] - lista[i - 1] > 0 THEN lista[i] - lista[i - 1] ELSE 0)
         + SumGanancias(lista, i - 1)

RECURSIVE SumPerdidas(_, _)
\* sum(-x if x < 0 else 0 for x in cambios)
SumPerdidas(lista, i) ==
    IF i < 2 THEN 0
    ELSE (IF lista[i] - lista[i - 1] < 0 THEN lista[i - 1] - lista[i] ELSE 0)
         + SumPerdidas(lista, i - 1)

\* the losses are averaged over the deltas, the gains over the prices
calcular_rsi_otro_divisor(lista) ==
    LET promedio_ganancias == Rat(SumGanancias(lista, Len(lista)), Len(lista))
        promedio_perdidas == Rat(SumPerdidas(lista, Len(lista)), Len(lista) - 1)
    IN  IF promedio_perdidas = R(0)
        THEN R(100)
        ELSE RSub(R(100),
                  RDiv(R(100), RAdd(One, RDiv(promedio_ganancias, promedio_perdidas))))

\* lista is not empty; float('inf') makes 100 / (1 + rs) vanish
calcular_rsi(lista) ==
    LET promedio_ganancias == Rat(SumGanancias(lista, Len(lista)), Len(lista))
        promedio_perdidas == Rat(SumPerdidas(lista, Len(lista)), Len(lista))
    IN  IF promedio_perdidas = R(0)
        THEN R(100)
        ELSE RSub(R(100),
                  RDiv(R(100), RAdd(One, RDiv(promedio_ganancias, promedio_perdidas))))

\* the RSI sale is missing: only the moving-average rules act
Mark4_tomar_decision_sin_rsi(self, precio_actual) ==
    IF self.prices = <<>>
    THEN [self EXCEPT !.raised = "ZeroDivisionError"]
    ELSE
    LET mm_corto == Bot_calcular_media_movil(self, self.corto)
        mm_mediano == Bot_calcular_media_movil(self, self.mediano)
        rsi == calcular_rsi(LastK(self.prices, RSI_N))
    IN  IF mm_corto = None \/ mm_mediano = None
        THEN self
        ELSE IF RGt(mm_corto, mm_mediano) /\ RPos(self.budget) /\ self.last_action # "buy"
        THEN Bot_comprar(self, precio_actual)
        ELSE IF RLt(mm_corto, mm_mediano) /\ RPos(self.crypto_balance)
                /\ self.last_action # "sell"
        THEN Bot_vender(self, precio_actual)
        ELSE self

Mark4_tomar_decision(self, precio_actual) ==
    IF self.prices = <<>>
    THEN [self EXCEPT !.raised = "ZeroDivisionError"]
    ELSE
    LET mm_corto == Bot_calcular_media_movil(self, self.corto)
        mm_mediano == Bot_calcular_media_movil(self, self.mediano)
        rsi == calcular_rsi(LastK(self.prices, RSI_N))
    IN  IF mm_corto = None \/ mm_mediano = None
        THEN self
        ELSE IF RGt(rsi, self.rsi_limit) /\ RPos(self.crypto_balance)
                /\ self.last_action # "sell"
        THEN Bot_vender(self, precio_actual)
        ELSE IF RGt(mm_corto, mm_mediano) /\ RPos(self.budget) /\ self.last_action # "buy"
        THEN Bot_comprar(self, precio_actual)
        ELSE IF RLt(mm_corto, mm_mediano) /\ RPos(self.crypto_balance)
                /\ self.last_action # "sell"
        THEN Bot_vender(self, precio_actual)
        ELSE self

\* a call on a bot whose driver was stopped by an exception never happens
Llamar(self, despues) == IF self.raised = "" THEN despues ELSE self

BotsInit ==
    /\ mark1 = Mark1_init(Budget0, BotCorto, BotLargo)
    /\ mark1b = Mark1b_init(Budget0, BotCorto, BotLargo)
    /\ mark4 = Mark4_init(Budget0, BotCorto, BotLargo, BotLargo + BotCorto, RsiLimit)
    /\ serie = [fed |-> <<>>, pending |-> FALSE]

\* for precio in precios: bot.agregar_precio(precio) ...
BotsAgregarPrecio ==
    /\ ~serie.pending
    /\ Len(serie.fed) < MaxBotTicks
    /\ \E precio \in BotPrices :
        /\ mark1' = Llamar(mark1, Bot_agregar_precio(mark1, precio))
        /\ mark1b' = Llamar(mark1b, Bot_agregar_precio(mark1b, precio))
        /\ mark4' = Llamar(mark4, Bot_agregar_precio(mark4, precio))
        /\ mark2' = agregar_precio(mark2, precio)
        /\ serie' = [fed |-> Append(serie.fed, precio), pending |-> TRUE]
    /\ UNCHANGED <<feed, bt, salidas, par, pipe, engine, manager>>

\* ... bot.tomar_decision(precio)
BotsTomarDecision ==
    /\ serie.pending
    /\ LET precio == serie.fed[Len(serie.fed)]
       IN  /\ mark1' = Llamar(mark1, Mark1_tomar_decision(mark1, precio))
           /\ mark1b' = Llamar(mark1b, Mark1b_tomar_decision(mark1b, precio))
           /\ mark4' = Llamar(mark4, Mark4_tomar_decision(mark4, precio))
           /\ mark2' = tomar_decision(mark2, precio)
    /\ serie' = [serie EXCEPT !.pending = FALSE]
    /\ UNCHANGED <<feed, bt, salidas, par, pipe, engine, manager>>

(***************************************************************************)
(* Driver loop: for precio in precios: agregar_precio; tomar_decision.     *)
(* The fed series starts at StartPrice and moves by feed.dir per tick;     *)
(* the trend changes at most once in a series.                             *)
(***************************************************************************)
Dirs == {-1, 0, 1}

FeedInit ==
    \E d \in Dirs :
        feed = [fed |-> <<>>, dir |-> d, turned |-> FALSE, pending |-> FALSE]

NextPrice(f, d) == IF f.fed = <<>> THEN StartPrice ELSE f.fed[Len(f.fed)] + d

AgregarPrecio ==
    /\ ~feed.pending
    /\ Len(feed.fed) < MaxTicks
    /\ \E d \in Dirs :
        /\ d = feed.dir \/ (~feed.turned /\ feed.fed # <<>>)
        /\ LET precio == NextPrice(feed, d)
           IN  /\ mark2' = agregar_precio(mark2, precio)
               /\ feed' = [feed EXCEPT !.fed = Append(@, precio),
                                       !.dir = d,
                                       !.turned = @ \/ d # feed.dir,
                                       !.pending = TRUE]
    /\ UNCHANGED <<bt, mark1, mark1b, mark4, serie, salidas, par, pipe, engine, manager>>

TomarDecision ==
    /\ feed.pending
    /\ mark2' = tomar_decision(mark2, feed.fed[Len(feed.fed)])
    /\ feed' = [feed EXCEPT !.pending = FALSE]
    /\ UNCHANGED <<bt, mark1, mark1b, mark4, serie, salidas, par, pipe, engine, manager>>

SalidasIdle == salidas = <<>>
(***************************************************************************)
(* Two bot instances and two backtester instances alive at the same time,  *)
(* as in a parameter sweep that keeps its bots (Simulacion_parametros.py   *)
(* builds one bot per parameter pair).  Each call names the instance it is  *)
(* made on; calls on different instances interleave freely.  A run of a    *)
(* backtester is one call.                                                 *)
(***************************************************************************)
\* prices fed to each instance of the pair
MaxParTicks == 3

ParPrices == {1, 2}
Instancias == {1, 2}

\* frames handed to the backtesters of the pair: a buy at 2, then a sell
ParFrames == {f \in FramesOfLen(2) : f[1].signal = 1 /\ f[1].close_price = 2
                                     /\ f[2].signal = -1}

RECURSIVE run_loop(_)
\* backtester.py lines 101-143: the loop over the rows of the frame
run_loop(self) ==
    IF self.i > Len(self.df) THEN self ELSE run_loop(execute_row(self))

\* Backtester.run as one call
run(self, df) ==
    LET started == run_start(self, df)
    IN  IF started.raised # "" THEN started ELSE run_finish(run_loop(started))

\* the constructions of the pair: bots with different periods, backtesters
\* with different rates
ParBot(i) ==
    IF i = 1 THEN Mark4_init(Budget0, BotCorto, BotLargo, BotLargo + BotCorto, RsiLimit)
    ELSE Mark4_init(Budget0, BotCorto - 1, BotCorto, BotLargo, RsiLimit)

ParBt(i) ==
    IF i = 1 THEN Backtester_init(R(Budget0), Rat(1, 4), R(0))
    ELSE Backtester_init(R(Budget0), R(0), Rat(1, 4))

ParInit ==
    par = [ bots |-> [i \in Instancias |-> ParBot(i)],
            fed |-> [i \in Instancias |-> <<>>],
            pending |-> [i \in Instancias |-> FALSE],
            bts |-> [i \in Instancias |-> ParBt(i)],
            dfs |-> [i \in Instancias |-> <<>>] ]

\* the window is one deque that all instances append to
Par_agregar_precio_ventana_comun(p, i, precio) ==
    [p EXCEPT !.bots = [j \in Instancias |->
                           Llamar(p.bots[j], Bot_agregar_precio(p.bots[j], precio))],
              !.fed[i] = Append(@, precio),
              !.pending[i] = TRUE]

\* bots[i].agregar_precio(precio): self.prices is the deque made in __init__
Par_agregar_precio(p, i, precio) ==
    [p EXCEPT !.bots[i] = Llamar(@, Bot_agregar_precio(@, precio)),
              !.fed[i] = Append(@, precio),
              !.pending[i] = TRUE]

\* bots[i].tomar_decision(precio)
Par_tomar_decision(p, i) ==
    LET precio == p.fed[i][Len(p.fed[i])]
    IN  [p EXCEPT !.bots[i] = Llamar(@, Mark4_tomar_decision(@, precio)),
                  !.pending[i] = FALSE]

\* bts[i].run(df)
Par_run(p, i, df) ==
    [p EXCEPT !.bts[i] = run(@, df), !.dfs[i] = Append(@, df)]

ParAgregarPrecio ==
    /\ \E i \in Instancias, precio \in ParPrices :
          /\ ~par.pending[i]
          /\ Len(par.fed[i]) < MaxParTicks
          /\ par' = Par_agregar_precio(par, i, precio)
    /\ UNCHANGED <<mark2, feed, bt, mark1, mark1b, mark4, serie, salidas, pipe, engine, manager>>

ParTomarDecision ==
    /\ \E i \in Instancias :
          /\ par.pending[i]
          /\ par' = Par_tomar_decision(par, i)
    /\ UNCHANGED <<mark2, feed, bt, mark1, mark1b, mark4, serie, salidas, pipe, engine, manager>>

ParRun ==
    /\ \E i \in Instancias, df \in ParFrames :
          /\ par.bts[i].pc = "idle"
          /\ par' = Par_run(par, i, df)
    /\ UNCHANGED <<mark2, feed, bt, mark1, mark1b, mark4, serie, salidas, pipe, engine, manager>>

ParIdle == par = <<>>
(***************************************************************************)
(* StrategyPipeline (src/copilot/pipeline/strategy_pipeline.py).  A        *)
(* strategy object is named by its name; its position and trade_history    *)
(* (src/copilot/core/base.py) are kept in objetos.  The strategies are the *)
(* SimpleStrategy of src/copilot/tests/test_backtest.py with its period    *)
(* and its buy and sell indices as parameters.  data is the price column   *)
(* of the frame, signals the frame generate_signals returned; <<>> stands   *)
(* for None.  devueltos records each run that returned: its arguments and   *)
(* the dictionary it returned.                                              *)
(***************************************************************************)
\* rows of the longest frame handed to the pipeline
MaxPipeRows == 2
\* calls of run on one pipeline
MaxPipeRuns == 2

PipeData == UNION {[1..n -> BtPrices] : n \in 0..MaxPipeRows}

Strategies ==
    { [name |-> "par", periodo |-> 2, compra |-> 0, venta |-> 1],
      [name |-> "impar", periodo |-> 2, compra |-> 1, venta |-> 0] }

StrategyNames == {st.name : st \in Strategies}

\* base.py lines 83-87 and 126-129: BaseStrategy.__init__ and reset
BaseStrategy_reset == [position |-> 0, trade_history |-> <<>>]

\* test_backtest.py lines 27-33, on the 0-based index of the row
SimpleStrategy_generate_signals(strategy, df) ==
    [k \in 1..Len(df) |->
        [ close_price |-> df[k],
          signal |-> IF (k - 1) % strategy.periodo = strategy.venta THEN -1
                     ELSE IF (k - 1) % strategy.periodo = strategy.compra THEN 1
                     ELSE 0 ]]

\* strategy_pipeline.py lines 14-18
Pipeline_init ==
    [ strategy |-> <<>>,
      data |-> <<>>,
      signals |-> <<>>,
      raised |-> "",
      devueltos |-> <<>>,
      objetos |-> [n \in StrategyNames |-> BaseStrategy_reset] ]

\* lines 40-60
Pipeline_generate_signals(self) ==
    IF self.strategy = <<>> \/ self.data = <<>>
    THEN [self EXCEPT !.raised = "StrategyError"]
    ELSE [self EXCEPT !.signals = SimpleStrategy_generate_signals(self.strategy[1], self.data)]

\* lines 77-103: one row of the loop, on the locals and the strategy's state
pipeline_row(row, idx, loc) ==
    IF row.signal = 1 /\ loc.position = 0
    THEN IF RPos(loc.balance)
         THEN LET crypto_balance == RDiv(loc.balance, R(row.close_price))
              IN  [loc EXCEPT
                      !.crypto_balance = crypto_balance,
                      !.trade_history = Append(@, [type |-> "buy",
                                                   price |-> row.close_price,
                                                   timestamp |-> idx,
                                                   quantity |-> crypto_balance]),
                      !.position = 1,
                      !.trades = Append(@, [type |-> "buy",
                                            price |-> row.close_price,
                                            timestamp |-> idx,
                                            balance |-> loc.balance]),
                      !.balance = R(0)]
         ELSE loc
    ELSE IF row.signal = -1 /\ loc.position = 1
    THEN IF RPos(loc.crypto_balance)
         THEN LET balance == RMul(loc.crypto_balance, R(row.close_price))
              IN  [loc EXCEPT
                      !.balance = balance,
                      !.trade_history = Append(@, [type |-> "sell",
                                                   price |-> row.close_price,
                                                   timestamp |-> idx,
                                                   quantity |-> loc.crypto_balance]),
                      !.position = 0,
                      !.trades = Append(@, [type |-> "sell",
                                            price |-> row.close_price,
                                            timestamp |-> idx,
                                            balance |-> balance]),
                      !.crypto_balance = R(0)]
         ELSE loc
    ELSE loc

RECURSIVE pipeline_loop(_, _, _)
\* line 77: for idx, row in self.signals.iterrows()
pipeline_loop(signals, k, loc) ==
    IF k > Len(signals) THEN loc
    ELSE pipeline_loop(signals, k + 1, pipeline_row(signals[k], k, loc))

\* the units still held at the end are not valued
pipeline_result_sin_valorar(signals, loc, initial_balance) ==
    LET balance == loc.balance
    IN  [ initial_balance |-> initial_balance,
          final_balance |-> balance,
          profit_loss |-> RSub(balance, initial_balance),
          profit_loss_pct |-> RMul(RDiv(RSub(balance, initial_balance), initial_balance),
                                   R(100)),
          num_trades |-> Len(loc.trades),
          trades |-> loc.trades ]

\* lines 105-117: the returned dictionary
pipeline_result(signals, loc, initial_balance) ==
    LET balance == IF RPos(loc.crypto_balance)
                   THEN RMul(loc.crypto_balance, R(signals[Len(signals)].close_price))
                   ELSE loc.balance
    IN  [ initial_balance |-> initial_balance,
          final_balance |-> balance,
          profit_loss |-> RSub(balance, initial_balance),
          profit_loss_pct |-> RMul(RDiv(RSub(balance, initial_balance), initial_balance),
                                   R(100)),
          num_trades |-> Len(loc.trades),
          trades |-> loc.trades ]

\* lines 62-117; df is the argument of the run that makes the call
Pipeline_execute_strategy(self, df, initial_balance) ==
    LET con == IF self.signals = <<>> THEN Pipeline_generate_signals(self) ELSE self
    IN  IF con.raised # "" THEN con
        ELSE LET nombre == con.strategy[1].name
                 loc == pipeline_loop(con.signals, 1,
                            [ balance |-> initial_balance,
                              crypto_balance |-> R(0),
                              trades |-> <<>>,
                              position |-> 0,
                              trade_history |-> <<>> ])
             IN  [con EXCEPT
                     !.objetos[nombre] = [position |-> loc.position,
                                          trade_history |-> loc.trade_history],
                     !.devueltos = Append(@,
                         [ df |-> df, strategy |-> con.strategy[1],
                           result |-> pipeline_result(con.signals, loc, initial_balance) ])]

\* lines 123-142: load_data (lines 29-38), set_strategy (20-27), execute_strategy
Pipeline_run(self, df, strategy, initial_balance) ==
    IF df = <<>>
    THEN [self EXCEPT !.raised = "ValidationError"]
    ELSE Pipeline_execute_strategy(
             [self EXCEPT !.data = df, !.strategy = <<strategy>>], df, initial_balance)

PipeInit == pipe = Pipeline_init

PipeRun ==
    /\ pipe.raised = ""
    /\ Len(pipe.devueltos) < MaxPipeRuns
    /\ \E df \in PipeData, strategy \in Strategies :
          pipe' = Pipeline_run(pipe, df, strategy, R(Budget0))
    /\ UNCHANGED <<mark2, feed, bt, mark1, mark1b, mark4, serie, salidas, par, engine, manager>>

\* execute_strategy of a fresh pipeline whose signals are the table the
\* backtester has run on, with the backtester's initial balance
PipeExecuteTabla ==
    /\ bt.pc = "done" /\ bt.raised = ""
    /\ pipe = Pipeline_init
    /\ \E strategy \in Strategies :
          pipe' = Pipeline_execute_strategy(
                      [pipe EXCEPT !.strategy = <<strategy>>,
                                   !.data = PriceColumn(bt.df),
                                   !.signals = bt.df],
                      bt.df, bt.initial_balance)
    /\ UNCHANGED <<mark2, feed, bt, mark1, mark1b, mark4, serie, salidas, par, engine, manager>>

PipeIdle == pipe = <<>>

(***************************************************************************)
(* RuleEngine (src/copilot/rules/rule_engine.py) over PriceThresholdRule   *)
(* (src/copilot/rules/trading_rules.py).  A frame is its close_price       *)
(* column; row_idx counts from 0 as in the code.  evaluado holds the       *)
(* arguments and the value of the latest evaluate call (<<>> before any).  *)
(***************************************************************************)
\* rules held by the engine at most
MaxRules == 2

Logics == {"AND", "OR"}
\* the constructor takes config['logic'] as it is
ConfigLogics == Logics \cup {"XOR"}

PriceRules ==
    { [threshold |-> 2, operator |-> "greater"],
      [threshold |-> 3, operator |-> "less"],
      [threshold |-> 3, operator |-> "equal"] }

EngineFrames == UNION {[1..n -> BtPrices] : n \in 1..2}

\* trading_rules.py lines 18-40
PriceThresholdRule_evaluate(rule, df, row_idx) ==
    IF row_idx >= Len(df) THEN FALSE
    ELSE LET price == df[row_idx + 1]
         IN  IF rule.operator = "greater" THEN price > rule.threshold
             ELSE IF rule.operator = "less" THEN price < rule.threshold
             ELSE IF rule.operator = "equal"
             THEN RLt(RAbs(RSub(R(price), R(rule.threshold))), Rat(1, 100))
             ELSE FALSE

\* rule_engine.py lines 13-16
RuleEngine_init(logic) ==
    [rules |-> <<>>, logic |-> logic, raised |-> "", evaluado |-> <<>>]

\* lines 18-25
RuleEngine_add_rule(self, rule) == [self EXCEPT !.rules = Append(@, rule)]

\* list.remove: the first entry equal to x goes
ListRemove(l, x) ==
    IF \E k \in 1..Len(l) : l[k] = x
    THEN LET k == CHOOSE i \in 1..Len(l) : l[i] = x /\ \A j \in 1..(i - 1) : l[j] # x
         IN  SubSeq(l, 1, k - 1) \o SubSeq(l, k + 1, Len(l))
    ELSE l

\* lines 27-35
RuleEngine_remove_rule(self, rule) == [self EXCEPT !.rules = ListRemove(@, rule)]

\* lines 37-39
RuleEngine_clear_rules(self) == [self EXCEPT !.rules = <<>>]

\* lines 101-110
RuleEngine_set_logic(self, logic) ==
    IF logic \notin Logics
    THEN [self EXCEPT !.raised = "ValueError"]
    ELSE [self EXCEPT !.logic = logic]

\* the guard for an engine without rules is missing
RuleEngine_evaluate_sin_guardia(self, df, row_idx) ==
    LET results == [k \in 1..Len(self.rules) |->
                       PriceThresholdRule_evaluate(self.rules[k], df, row_idx)]
    IN  IF self.logic = "AND" THEN \A k \in 1..Len(results) : results[k]
        ELSE IF self.logic = "OR" THEN \E k \in 1..Len(results) : results[k]
        ELSE FALSE

\* lines 41-62: the value evaluate returns
RuleEngine_evaluate(self, df, row_idx) ==
    IF self.rules = <<>> THEN FALSE
    ELSE LET results == [k \in 1..Len(self.rules) |->
                            PriceThresholdRule_evaluate(self.rules[k], df, row_idx)]
         IN  IF self.logic = "AND" THEN \A k \in 1..Len(results) : results[k]
             ELSE IF self.logic = "OR" THEN \E k \in 1..Len(results) : results[k]
             ELSE FALSE

EngineInit == \E logic \in ConfigLogics : engine = RuleEngine_init(logic)

EngineAddRule ==
    /\ engine.raised = ""
    /\ Len(engine.rules) < MaxRules
    /\ \E rule \in PriceRules : engine' = RuleEngine_add_rule(engine, rule)
    /\ UNCHANGED <<mark2, feed, bt, mark1, mark1b, mark4, serie, salidas, par, pipe, manager>>

EngineRemoveRule ==
    /\ engine.raised = ""
    /\ \E rule \in PriceRules : engine' = RuleEngine_remove_rule(engine, rule)
    /\ UNCHANGED <<mark2, feed, bt, mark1, mark1b, mark4, serie, salidas, par, pipe, manager>>

EngineClearRules ==
    /\ engine.raised = ""
    /\ engine' = RuleEngine_clear_rules(engine)
    /\ UNCHANGED <<mark2, feed, bt, mark1, mark1b, mark4, serie, salidas, par, pipe, manager>>

EngineSetLogic ==
    /\ engine.raised = ""
    /\ \E logic \in ConfigLogics : engine' = RuleEngine_set_logic(engine, logic)
    /\ UNCHANGED <<mark2, feed, bt, mark1, mark1b, mark4, serie, salidas, par, pipe, manager>>

EngineEvaluate ==
    /\ engine.raised = ""
    /\ \E df \in EngineFrames : \E row_idx \in 0..Len(df) :
          engine' = [engine EXCEPT !.evaluado =
                        <<[ df |-> df, row_idx |-> row_idx,
                            result |-> RuleEngine_evaluate(engine, df, row_idx) ]>>]
    /\ UNCHANGED <<mark2, feed, bt, mark1, mark1b, mark4, serie, salidas, par, pipe, manager>>

EngineIdle == engine = <<>>
(***************************************************************************)
(* AlertManager (src/copilot/alerts/alert_manager.py).  An alert keeps its *)
(* id, severity and acknowledged flag; type, message, timestamp and data   *)
(* are never read by the manager.  A handler is either one that returns    *)
(* ("anota") or one that raises ("falla").  raised, invocados and devuelto  *)
(* describe the latest call: the exception it raised ("" for none), the     *)
(* handlers it invoked in order, and the list get_alerts returned; llamada  *)
(* names that call and its argument.  The caller catches AlertError and     *)
(* goes on using the manager.                                               *)
(***************************************************************************)
\* alerts stored at most
MaxAlerts == 3
\* handlers registered at most
MaxHandlers == 2

Severities == {"info", "warning"}
Handlers == {"anota", "falla"}
\* None or a flag
AckFilters == {"None", "True", "False"}

\* lines 14-18
AlertManager_init(enabled) ==
    [ alerts |-> <<>>,
      handlers |-> <<>>,
      enabled |-> enabled,
      raised |-> "",
      invocados |-> <<>>,
      devuelto |-> <<>>,
      llamada |-> <<>> ]

\* lines 20-27
AlertManager_add_handler(self, handler) ==
    [self EXCEPT !.handlers = Append(@, handler),
                 !.raised = "", !.invocados = <<>>, !.devuelto = <<>>]

\* lines 29-37
AlertManager_remove_handler(self, handler) ==
    [self EXCEPT !.handlers = ListRemove(@, handler),
                 !.raised = "", !.invocados = <<>>, !.devuelto = <<>>]

\* the handlers invoked by the loop of lines 82-86: all of them, or those up
\* to and including the first that raises
Despachados(handlers) ==
    IF \E k \in 1..Len(handlers) : handlers[k] = "falla"
    THEN SubSeq(handlers, 1,
                CHOOSE k \in 1..Len(handlers) :
                    /\ handlers[k] = "falla"
                    /\ \A j \in 1..(k - 1) : handlers[j] # "falla")
    ELSE handlers

\* lines 75-86
AlertManager_dispatch_alert(self, alert) ==
    LET invocados == Despachados(self.handlers)
    IN  [self EXCEPT
            !.invocados = invocados,
            !.raised = IF invocados # <<>> /\ invocados[Len(invocados)] = "falla"
                       THEN "AlertError" ELSE ""]

\* the alert is stored only after the handlers have returned
AlertManager_create_alert_despacha_antes(self, severity) ==
    LET alert == [id |-> Len(self.alerts) + 1, severity |-> severity,
                  acknowledged |-> FALSE]
        limpio == [self EXCEPT !.raised = "", !.invocados = <<>>, !.devuelto = <<>>]
        despachado == IF self.enabled THEN AlertManager_dispatch_alert(limpio, alert)
                      ELSE limpio
    IN  IF despachado.raised # "" THEN despachado
        ELSE [despachado EXCEPT !.alerts = Append(@, alert)]

\* lines 39-73
AlertManager_create_alert(self, severity) ==
    LET alert == [id |-> Len(self.alerts) + 1, severity |-> severity,
                  acknowledged |-> FALSE]
        stored == [self EXCEPT !.alerts = Append(@, alert),
                               !.raised = "", !.invocados = <<>>, !.devuelto = <<>>]
    IN  IF self.enabled THEN AlertManager_dispatch_alert(stored, alert) ELSE stored

\* lines 88-111: the list get_alerts returns
AlertManager_get_alerts(self, severity, acknowledged) ==
    LET by_severity == IF severity # "None"
                       THEN SelectSeq(self.alerts, LAMBDA a : a.severity = severity)
                       ELSE self.alerts
    IN  IF acknowledged # "None"
        THEN SelectSeq(by_severity, LAMBDA a : a.acknowledged = (acknowledged = "True"))
        ELSE by_severity

\* every alert from that id on is flagged
AlertManager_acknowledge_alert_todas(self, alert_id) ==
    [self EXCEPT
        !.alerts = [k \in 1..Len(self.alerts) |->
                        IF self.alerts[k].id >= alert_id
                        THEN [self.alerts[k] EXCEPT !.acknowledged = TRUE]
                        ELSE self.alerts[k]],
        !.raised = "", !.invocados = <<>>, !.devuelto = <<>>]

\* lines 113-123: the first alert carrying the id is flagged
AlertManager_acknowledge_alert(self, alert_id) ==
    LET limpio == [self EXCEPT !.raised = "", !.invocados = <<>>, !.devuelto = <<>>]
    IN  IF \E k \in 1..Len(self.alerts) : self.alerts[k].id = alert_id
        THEN LET k == CHOOSE i \in 1..Len(self.alerts) :
                          /\ self.alerts[i].id = alert_id
                          /\ \A j \in 1..(i - 1) : self.alerts[j].id # alert_id
             IN  [limpio EXCEPT !.alerts[k].acknowledged = TRUE]
        ELSE limpio

\* lines 125-127
AlertManager_clear_alerts(self) ==
    [self EXCEPT !.alerts = <<>>, !.raised = "", !.invocados = <<>>, !.devuelto = <<>>]

ManagerInit == \E enabled \in BOOLEAN : manager = AlertManager_init(enabled)

ManagerAddHandler ==
    /\ Len(manager.handlers) < MaxHandlers
    /\ \E handler \in Handlers :
          manager' = [AlertManager_add_handler(manager, handler) EXCEPT
                         !.llamada = <<"add_handler", handler>>]
    /\ UNCHANGED <<mark2, feed, bt, mark1, mark1b, mark4, serie, salidas, par, pipe, engine>>

ManagerRemoveHandler ==
    /\ \E handler \in Handlers :
          manager' = [AlertManager_remove_handler(manager, handler) EXCEPT
                         !.llamada = <<"remove_handler", handler>>]
    /\ UNCHANGED <<mark2, feed, bt, mark1, mark1b, mark4, serie, salidas, par, pipe, engine>>

ManagerCreateAlert ==
    /\ Len(manager.alerts) < MaxAlerts
    /\ \E severity \in Severities :
          manager' = [AlertManager_create_alert(manager, severity) EXCEPT
                         !.llamada = <<"create_alert", severity>>]
    /\ UNCHANGED <<mark2, feed, bt, mark1, mark1b, mark4, serie, salidas, par, pipe, engine>>

ManagerAcknowledge ==
    /\ \E alert_id \in 0..(MaxAlerts + 1) :
          manager' = [AlertManager_acknowledge_alert(manager, alert_id) EXCEPT
                         !.llamada = <<"acknowledge_alert", alert_id>>]
    /\ UNCHANGED <<mark2, feed, bt, mark1, mark1b, mark4, serie, salidas, par, pipe, engine>>

ManagerClear ==
    /\ manager' = [AlertManager_clear_alerts(manager) EXCEPT
                       !.llamada = <<"clear_alerts", "">>]
    /\ UNCHANGED <<mark2, feed, bt, mark1, mark1b, mark4, serie, salidas, par, pipe, engine>>

ManagerGetAlerts ==
    /\ \E acknowledged \in AckFilters :
          manager' = [manager EXCEPT
                         !.raised = "", !.invocados = <<>>,
                         !.llamada = <<"get_alerts", acknowledged>>,
                         !.devuelto = <<[ acknowledged |-> acknowledged,
                                          alerts |-> AlertManager_get_alerts(
                                                         manager, "None", acknowledged) ]>>]
    /\ UNCHANGED <<mark2, feed, bt, mark1, mark1b, mark4, serie, salidas, par, pipe, engine>>

ManagerIdle == manager = <<>>

FeedIdle == feed = [fed |-> <<>>, dir |-> 0, turned |-> FALSE, pending |-> FALSE]

BtIdle == bt = Backtester_init(R(Budget0), R(0), R(0))

Init ==
    /\ mark2 = Mark2_init(Budget0)
    /\ FeedInit
    /\ BtIdle
    /\ BotsInit
    /\ SalidasIdle
    /\ ParIdle
    /\ PipeIdle
    /\ EngineIdle
    /\ ManagerIdle

InitBt ==
    /\ mark2 = Mark2_init(Budget0)
    /\ FeedIdle
    /\ BtInit
    /\ BotsInit
    /\ SalidasIdle
    /\ ParIdle
    /\ PipeIdle
    /\ EngineIdle
    /\ ManagerIdle

InitBots ==
    /\ mark2 = Mark2_init(Budget0)
    /\ FeedIdle
    /\ BtIdle
    /\ BotsInit
    /\ SalidasIdle
    /\ ParIdle
    /\ PipeIdle
    /\ EngineIdle
    /\ ManagerIdle

\* a Mark2 bot driven over a fed series
Next ==
    \/ AgregarPrecio
    \/ TomarDecision

Spec == Init /\ [][Next]_vars

\* a Backtester run
NextBt ==
    \/ BtRun
    \/ BtRow
    \/ BtFinish

SpecBt == InitBt /\ [][NextBt]_vars

\* the rule chain of Mark2 over free averages
InitReglas ==
    /\ mark2 = Mark2_init(Budget0)
    /\ FeedIdle
    /\ BtIdle
    /\ BotsInit
    /\ SalidasIdle
    /\ ParIdle
    /\ PipeIdle
    /\ EngineIdle
    /\ ManagerIdle

NextReglas == ReglasDecidir

SpecReglas == InitReglas /\ [][NextReglas]_vars

\* a Backtester that is run a second time
InitBtRerun ==
    /\ mark2 = Mark2_init(Budget0)
    /\ FeedIdle
    /\ bt = Backtester_init(R(Budget0), Rat(1, 4), Rat(1, 4))
    /\ BotsInit
    /\ SalidasIdle
    /\ ParIdle
    /\ PipeIdle
    /\ EngineIdle
    /\ ManagerIdle

NextBtRerun ==
    \/ BtRun
    \/ BtRow
    \/ BtFinish
    \/ BtRerun

SpecBtRerun == InitBtRerun /\ [][NextBtRerun]_vars

\* a Backtester run followed by metric calls on its results, without costs
\* or with commission and slippage
InitBtMetricas ==
    /\ mark2 = Mark2_init(Budget0)
    /\ FeedIdle
    /\ \E c \in Rates : bt = Backtester_init(R(Budget0), c, c)
    /\ BotsInit
    /\ SalidasIdle
    /\ ParIdle
    /\ PipeIdle
    /\ EngineIdle
    /\ ManagerIdle

NextBtMetricas ==
    \/ BtRun
    \/ BtRow
    \/ BtFinish
    \/ BtAnalizar

SpecBtMetricas == InitBtMetricas /\ [][NextBtMetricas]_vars

\* two bots and two backtesters driven with interleaved calls
InitPar ==
    /\ mark2 = Mark2_init(Budget0)
    /\ FeedIdle
    /\ BtIdle
    /\ BotsInit
    /\ SalidasIdle
    /\ ParInit
    /\ PipeIdle
    /\ EngineIdle
    /\ ManagerIdle

NextPar ==
    \/ ParAgregarPrecio
    \/ ParTomarDecision
    \/ ParRun

SpecPar == InitPar /\ [][NextPar]_vars

\* a StrategyPipeline run several times
InitPipe ==
    /\ mark2 = Mark2_init(Budget0)
    /\ FeedIdle
    /\ BtIdle
    /\ BotsInit
    /\ SalidasIdle
    /\ ParIdle
    /\ PipeInit
    /\ EngineIdle
    /\ ManagerIdle

NextPipe == PipeRun

SpecPipe == InitPipe /\ [][NextPipe]_vars

\* a RuleEngine whose rules and logic change between evaluations
InitEngine ==
    /\ mark2 = Mark2_init(Budget0)
    /\ FeedIdle
    /\ BtIdle
    /\ BotsInit
    /\ SalidasIdle
    /\ ParIdle
    /\ PipeIdle
    /\ EngineInit
    /\ ManagerIdle

NextEngine ==
    \/ EngineAddRule
    \/ EngineRemoveRule
    \/ EngineClearRules
    \/ EngineSetLogic
    \/ EngineEvaluate

SpecEngine == InitEngine /\ [][NextEngine]_vars

\* an AlertManager under any sequence of calls
InitManager ==
    /\ mark2 = Mark2_init(Budget0)
    /\ FeedIdle
    /\ BtIdle
    /\ BotsInit
    /\ SalidasIdle
    /\ ParIdle
    /\ PipeIdle
    /\ EngineIdle
    /\ ManagerInit

NextManager ==
    \/ ManagerAddHandler
    \/ ManagerRemoveHandler
    \/ ManagerCreateAlert
    \/ ManagerAcknowledge
    \/ ManagerClear
    \/ ManagerGetAlerts

SpecManager == InitManager /\ [][NextManager]_vars

\* a Backtester run followed by its trade analysis
NextBtAnalisis ==
    \/ BtRun
    \/ BtRow
    \/ BtFinish
    \/ BtGetTradeAnalysis

SpecBtAnalisis == InitBt /\ [][NextBtAnalisis]_vars

\* a Backtester and a fresh StrategyPipeline on the same signal table
InitEquiv ==
    /\ mark2 = Mark2_init(Budget0)
    /\ FeedIdle
    /\ BtInit
    /\ BotsInit
    /\ SalidasIdle
    /\ ParIdle
    /\ PipeInit
    /\ EngineIdle
    /\ ManagerIdle

NextEquiv ==
    \/ BtRun
    \/ BtRow
    \/ BtFinish
    \/ PipeExecuteTabla

SpecEquiv == InitEquiv /\ [][NextEquiv]_vars

\* a Backtester configured with a rate outside [0, 1)
InitBtBad ==
    /\ mark2 = Mark2_init(Budget0)
    /\ FeedIdle
    /\ BtInitBad
    /\ BotsInit
    /\ SalidasIdle
    /\ ParIdle
    /\ PipeIdle
    /\ EngineIdle
    /\ ManagerIdle

SpecBtBad == InitBtBad /\ [][NextBt]_vars

\* the four bot variants driven over one price series
NextBots ==
    \/ BotsAgregarPrecio
    \/ BotsTomarDecision

SpecBots == InitBots /\ [][NextBots]_vars

(***************************************************************************)
(* Mark2: what the fed series says, independently of the bot's window.     *)
(***************************************************************************)
\* number of prices fed so far, and the newest of them
Fed == Len(feed.fed)
PrecioActual == feed.fed[Fed]

\* arithmetic mean of the k prices fed up to and including tick t
MediaFed(k, t) ==
    IF t < k \/ t > Fed THEN None ELSE Rat(SumSeq(feed.fed, t - k + 1, t), k)

\* the three averages of this tick and the two of the tick before are defined
SerieLista == Fed >= LARGO + 1

\* rule selected by the averages of the fed series at this tick
ReglaFed ==
    regla(MediaFed(CORTO, Fed), MediaFed(MEDIANO, Fed), MediaFed(LARGO, Fed),
          MediaFed(MEDIANO, Fed - 1), MediaFed(LARGO, Fed - 1),
          mark2.budget, mark2.crypto_balance, mark2.last_action)

OperacionDe(r) ==
    CASE r \in {1, 2} -> "Compra (100%)"
      [] r = 3 -> "Compra (50%)"
      [] r \in {4, 5} -> "Venta (100%)"
      [] r = 6 -> "Venta (50%)"
      [] OTHER -> "ninguna"

Historial == mark2.historial_operaciones

IndicadoresPresentes(self) ==
    /\ calcular_media_movil(self, CORTO) # None
    /\ calcular_media_movil(self, MEDIANO) # None
    /\ calcular_media_movil(self, LARGO) # None
    /\ calcular_media_movil_prev(self, MEDIANO) # None
    /\ calcular_media_movil_prev(self, LARGO) # None

UltimaOperacion(h) == h[Len(h)].Operacion

\* The decision of the pending tick is a hold by the bot's own indicators.
TickSinRegla ==
    \/ ~IndicadoresPresentes(mark2)
    \/ regla(calcular_media_movil(mark2, CORTO), calcular_media_movil(mark2, MEDIANO),
             calcular_media_movil(mark2, LARGO), calcular_media_movil_prev(mark2, MEDIANO),
             calcular_media_movil_prev(mark2, LARGO),
             mark2.budget, mark2.crypto_balance, mark2.last_action) = 0

\* C1: a tick appends at most one ledger entry, and on a tick where some rule's
\* condition holds for the averages of the fed series (all five defined), the
\* first such rule in source order is the one executed.
C1_PrimeraReglaEjecutada ==
    [][ /\ Len(Historial') <= Len(Historial) + 1
        /\ (feed.pending /\ SerieLista /\ ReglaFed # 0) =>
               /\ Len(Historial') = Len(Historial) + 1
               /\ UltimaOperacion(Historial') = OperacionDe(ReglaFed) ]_vars

SubeYLuegoBaja ==
    \E k \in 2..(Fed - 1) :
        /\ \A i \in 1..(k - 1) : feed.fed[i] < feed.fed[i + 1]
        /\ \A i \in k..(Fed - 1) : feed.fed[i] > feed.fed[i + 1]

\* C3: after a whole series that rises and then falls has been fed, the ledger
\* holds exactly a full buy followed by a full sell.
C3_SubeBajaDosOperaciones ==
    (Fed = MaxTicks /\ ~feed.pending /\ SubeYLuegoBaja) =>
        /\ Len(Historial) = 2
        /\ Historial[1].Operacion = "Compra (100%)"
        /\ Historial[2].Operacion = "Venta (100%)"

\* C4: on the tick where the medium average, below the long one on the previous
\* tick, is above it (cash > 0), the full buy of rule 1 is executed.
C4_CruceDisparaRegla1 ==
    [][ ( /\ feed.pending /\ SerieLista
          /\ RLt(MediaFed(MEDIANO, Fed - 1), MediaFed(LARGO, Fed - 1))
          /\ RGt(MediaFed(MEDIANO, Fed), MediaFed(LARGO, Fed))
          /\ RPos(mark2.budget) ) =>
            /\ Len(Historial') = Len(Historial) + 1
            /\ UltimaOperacion(Historial') = "Compra (100%)"
            /\ mark2'.budget = R(0) ]_vars

\* C5: once more prices have been fed than the longest look-back needs, all
\* five indicators are present when tomar_decision runs.
C5_IndicadoresLlegan ==
    (feed.pending /\ Fed > LARGO) => IndicadoresPresentes(mark2)

\* C7: a tick on which an indicator is absent or no rule condition holds leaves
\* budget, crypto_balance, last_action, precio_compra and the ledger unchanged.
C7_HoldSinCambios ==
    [][ (feed.pending /\ TickSinRegla) =>
            /\ mark2'.budget = mark2.budget
            /\ mark2'.crypto_balance = mark2.crypto_balance
            /\ mark2'.last_action = mark2.last_action
            /\ mark2'.precio_compra = mark2.precio_compra
            /\ mark2'.historial_operaciones = mark2.historial_operaciones ]_vars

\* a hold tick has been taken on a full window
C7_Witness ==
    /\ ~feed.pending
    /\ Fed > MAXLEN
    /\ mark2.current_time = Fed

(***************************************************************************)
(* Backtester: properties of a run.                                        *)
(***************************************************************************)
BtDone == bt.pc = "done"
Results == bt.results[1]
LastTrade(t) == t[Len(t)]
ClosePrice(idx) == bt.df[idx].close_price

\* initial_balance * (1-c)^2 * p2*(1-s) / (p1*(1+s))
RoundTrip(initial_balance, c, sl, p1, p2) ==
    RDiv(RMul(RMul(initial_balance, RMul(RSub(One, c), RSub(One, c))),
              RMul(R(p2), RSub(One, sl))),
         RMul(R(p1), RAdd(One, sl)))

\* C8: a completed run with exactly one buy (at close p1) followed by one sell
\* (at close p2) ends with initial_balance * (1-c)^2 * p2(1-s) / (p1(1+s)), which
\* is initial_balance * p2 / p1 when commission = slippage = 0.
C8_RoundTripBalance ==
    (BtDone /\ Len(Results.trades) = 2) =>
        LET p1 == ClosePrice(Results.trades[1].timestamp)
            p2 == ClosePrice(Results.trades[2].timestamp)
        IN  /\ Results.trades[1].type = "buy"
            /\ Results.trades[2].type = "sell"
            /\ Results.final_balance =
                   RoundTrip(bt.initial_balance, bt.commission, bt.slippage, p1, p2)
            /\ (bt.commission = R(0) /\ bt.slippage = R(0)) =>
                   Results.final_balance = RDiv(RMul(bt.initial_balance, R(p2)), R(p1))

\* a buy and a signalled sell at different prices, with both costs charged
C8_Witness ==
    /\ BtDone
    /\ Len(Results.trades) = 2
    /\ bt.commission # R(0) /\ bt.slippage # R(0)
    /\ Results.trades[2].timestamp < Len(bt.df)
    /\ ClosePrice(Results.trades[1].timestamp) # ClosePrice(Results.trades[2].timestamp)

\* the sale that closes a position still open after the last row
FinalSell(self) ==
    LET n == Len(self.df)
        price == RMul(R(self.df[n].close_price), RSub(One, self.slippage))
    IN  Trade("sell", price, n,
              RMul(RMul(self.crypto_balance, price), RSub(One, self.commission)),
              self.crypto_balance)

\* C9: when the rows are exhausted with a position open, it is sold at the last
\* close * (1 - slippage) less commission and recorded as a final sell; the
\* final balance of a run is the cash after its last sell and a non-empty trade
\* list ends with a sell.
C9_ForcedClose ==
    [][ (bt.pc = "loop" /\ bt'.pc = "done") =>
          LET res == bt'.results[1]
          IN  /\ bt.position = 1 =>
                    /\ res.trades = Append(bt.trades, FinalSell(bt))
                    /\ res.final_balance = FinalSell(bt).balance
              /\ bt.position = 0 =>
                    /\ res.trades = bt.trades
                    /\ res.final_balance = bt.balance
              /\ res.trades # <<>> =>
                    /\ LastTrade(res.trades).type = "sell"
                    /\ res.final_balance = LastTrade(res.trades).balance ]_vars

\* a run whose last row gave no sell signal ended by the forced sale
C9_Witness ==
    /\ BtDone
    /\ Results.trades # <<>>
    /\ LastTrade(Results.trades).timestamp = Len(bt.df)
    /\ bt.df[Len(bt.df)].signal # -1
    /\ bt.commission # R(0)

IgnoredSignal(self) ==
    LET row == self.df[self.i]
    IN  \/ row.signal = 1 /\ self.position = 1
        \/ row.signal = -1 /\ self.position = 0
        \/ row.signal = 0

\* C10: a buy signal while long, a sell signal while flat and a 0 signal leave
\* cash, units, position and the trade list unchanged for that row.
C10_IgnoredSignals ==
    [][ (bt.pc = "loop" /\ bt.i <= Len(bt.df) /\ IgnoredSignal(bt)) =>
            /\ bt'.balance = bt.balance
            /\ bt'.crypto_balance = bt.crypto_balance
            /\ bt'.position = bt.position
            /\ bt'.trades = bt.trades ]_vars

\* a buy signal has been passed over while long, a sell signal while flat
C10_Witness ==
    /\ bt.pc = "loop"
    /\ bt.i = 4
    /\ bt.df[1].signal = -1
    /\ bt.df[2].signal = 1
    /\ bt.df[3].signal = 1
    /\ bt.position = 1
    /\ Len(bt.trades) = 1

(***************************************************************************)
(* The bot variants before their moving averages are available.            *)
(***************************************************************************)
SinMedias(self, p1, p2) ==
    \/ Bot_calcular_media_movil(self, p1) = None
    \/ Bot_calcular_media_movil(self, p2) = None

\* the call returns normally and trades nothing
HoldNormal(antes, despues) ==
    /\ despues.raised = ""
    /\ despues.budget = antes.budget
    /\ despues.crypto_balance = antes.crypto_balance
    /\ despues.historial_operaciones = antes.historial_operaciones

\* C6: in every bot variant a tomar_decision call made while the required
\* moving averages are not yet available returns normally as a hold: no
\* exception, no trade, no ledger entry.
C6_HoldSinMedias ==
    [][ serie.pending =>
          /\ SinMedias(mark1, mark1.corto, mark1.largo) => HoldNormal(mark1, mark1')
          /\ SinMedias(mark1b, mark1b.corto, mark1b.largo) => HoldNormal(mark1b, mark1b')
          /\ SinMedias(mark4, mark4.corto, mark4.mediano) => HoldNormal(mark4, mark4')
          /\ ~IndicadoresPresentes(mark2) =>
                /\ mark2'.budget = mark2.budget
                /\ mark2'.crypto_balance = mark2.crypto_balance
                /\ mark2'.historial_operaciones = mark2.historial_operaciones ]_vars

(***************************************************************************)
(* The loop of _execute_backtest, empty frames and rate validation         *)
(***************************************************************************)
EquityBeforeActing(self) ==
    IF self.position = 1
    THEN RMul(self.crypto_balance, R(self.df[self.i].close_price))
    ELSE self.balance

\* rows the loop has still to take
RowsLeft(self) == Len(self.df) + 1 - self.i

\* C11: the loop takes the rows once each in series order and ends (the
\* number of rows left drops by one with every iteration and the run
\* finishes when it is 0); each row appends one equity value computed
\* before its signal acts (cash when flat, units times the row's close when
\* long), so the finished run has one equity value per row.
C11_CadaFilaUnaVez ==
    /\ [](bt.pc = "loop" => /\ RowsLeft(bt) \in 0..Len(bt.df)
                            /\ Len(bt.equity_curve) = bt.i - 1)
    /\ [][(bt.pc = "loop" /\ bt' # bt)
            => \/ /\ bt'.pc = "loop"
                  /\ RowsLeft(bt) >= 1
                  /\ RowsLeft(bt') = RowsLeft(bt) - 1
                  /\ bt'.i = bt.i + 1
                  /\ bt'.df = bt.df
                  /\ bt'.equity_curve = Append(bt.equity_curve, EquityBeforeActing(bt))
               \/ /\ bt'.pc = "done"
                  /\ RowsLeft(bt) = 0
                  /\ bt'.results[1].equity_curve = bt.equity_curve
                  /\ Len(bt'.results[1].equity_curve) = Len(bt.df)]_vars

C11_Witness ==
    /\ BtDone
    /\ Len(bt.df) >= 3
    /\ Len(Results.equity_curve) = Len(bt.df)
    /\ \E k \in 1..Len(bt.df) : Results.equity_curve[k] # bt.initial_balance

\* C12: run called with a frame of zero rows raises BacktestError before
\* any simulation step and leaves the data, the strategy and the results
\* of the backtester as they were.
C12_FrameVacio ==
    [][(bt'.calls = bt.calls + 1 /\ bt'.run_arg = <<>>)
        => /\ bt'.raised = "BacktestError"
           /\ bt'.data = bt.data
           /\ bt'.strategy = bt.strategy
           /\ bt'.results = bt.results
           /\ bt'.pc = bt.pc
           /\ bt'.i = bt.i
           /\ bt'.trades = bt.trades
           /\ bt'.equity_curve = bt.equity_curve]_vars

C12_Witness ==
    /\ bt.raised = "BacktestError"
    /\ bt.calls = 2
    /\ bt.results # <<>>
    /\ bt.data # <<>>
    /\ bt.strategy # <<>>

RateInvalid(r) == RLt(r, R(0)) \/ ~RLt(r, R(1))

\* C13: a backtester whose commission or slippage rate is negative or at
\* least 1 rejects the run with an error before any simulation step, and
\* no trade is executed with such a rate.
C13_TasaInvalidaRechazada ==
    ((RateInvalid(bt.commission) \/ RateInvalid(bt.slippage)) /\ bt.calls > 0)
        => /\ bt.raised # ""
           /\ bt.pc = "idle"
           /\ bt.trades = <<>>

NoBuySignal(df) == \A k \in 1..Len(df) : df[k].signal # 1

\* C14: a run over a non-empty series in which no buy is taken records no
\* trades: num_trades is 0, final_balance is the initial balance and every
\* equity value is the initial balance.
C14_SinCompraSinOperaciones ==
    (BtDone /\ NoBuySignal(bt.df))
        => /\ Results.num_trades = 0
           /\ Results.trades = <<>>
           /\ Results.final_balance = bt.initial_balance
           /\ Len(Results.equity_curve) = Len(bt.df)
           /\ \A k \in 1..Len(Results.equity_curve) :
                  Results.equity_curve[k] = bt.initial_balance

C14_Witness ==
    /\ BtDone
    /\ NoBuySignal(bt.df)
    /\ Len(bt.df) >= 2
    /\ \E k \in 1..Len(bt.df) : bt.df[k].signal = -1
    /\ Results.num_trades = 0

(***************************************************************************)
(* Ledger and balances of the bots                                         *)
(***************************************************************************)
RNonNeg(x) == ~RLt(x, R(0))
IsPrefix(s, t) == Len(s) <= Len(t) /\ SubSeq(t, 1, Len(s)) = s
Hist2 == mark2.historial_operaciones
Grew2 == Len(mark2'.historial_operaciones) = Len(mark2.historial_operaciones) + 1
New2 == mark2'.historial_operaciones[Len(mark2'.historial_operaciones)]
MarkToMarket(self, p) == RAdd(self.budget, RMul(self.crypto_balance, R(p)))

\* C15: every entry Mark2 appends records the cash and the units as they
\* are after the trade, and its accumulated figure is cash after + units
\* after x trade price - initial budget.
C15_EntradaTrasOperacion ==
    [][Hist2 # mark2'.historial_operaciones
        => /\ Grew2
           /\ New2.Budget = mark2'.budget
           /\ New2.Crypto = mark2'.crypto_balance
           /\ New2.Acumulada =
                  RSub(RAdd(mark2'.budget,
                            RMul(mark2'.crypto_balance, R(New2.Precio))),
                       mark2'.budget_inicial)]_vars

C15_Witness ==
    \E k \in 1..Len(Hist2) :
        /\ RPos(Hist2[k].Budget)
        /\ RPos(Hist2[k].Crypto)
        /\ RPos(Hist2[k].Acumulada)

\* C16: a Mark2 trade at price p keeps budget and crypto_balance at or
\* above 0 and keeps budget + crypto_balance x p; a half buy spends half of
\* the free cash and a half sell sells half of the units held.
C16_OperacionConservaValor ==
    [][Hist2 # mark2'.historial_operaciones
        => /\ Grew2
           /\ RNonNeg(mark2'.budget)
           /\ RNonNeg(mark2'.crypto_balance)
           /\ MarkToMarket(mark2', New2.Precio) = MarkToMarket(mark2, New2.Precio)
           /\ New2.Operacion = "Compra (50%)"
                 => /\ mark2'.budget = RMul(mark2.budget, Half)
                    /\ New2.Cantidad = RDiv(RMul(mark2.budget, Half), R(New2.Precio))
                    /\ mark2'.crypto_balance = RAdd(mark2.crypto_balance, New2.Cantidad)
           /\ New2.Operacion = "Venta (50%)"
                 => /\ mark2'.crypto_balance = RMul(mark2.crypto_balance, Half)
                    /\ New2.Cantidad = RMul(mark2.crypto_balance, Half)]_vars

C16_Witness ==
    /\ \E k \in 1..Len(Hist2) : Hist2[k].Operacion = "Compra (50%)"
    /\ \E k \in 1..Len(Hist2) : Hist2[k].Operacion = "Venta (50%)"
    /\ RPos(mark2.budget)
    /\ RPos(mark2.crypto_balance)

FullBots == <<mark1, mark1b, mark4>>

SellCondition(c, m, l, mp, lp) ==
    \/ RLt(c, l) /\ RLt(m, l) /\ RLt(c, m)
    \/ RLt(m, l) /\ RGt(mp, lp)
    \/ RGt(c, l) /\ RGt(m, l) /\ RLt(c, m) /\ RGt(mp, lp)

EsVenta(op) == op \in {"Venta (100%)", "Venta (50%)"}

\* C18: no Mark2 sell rule executes while the units held are 0: a tick
\* whose averages meet a sell rule is then a plain hold tick that appends
\* no entry; and every entry of the ledger has a quantity above 0.
C18_SinUnidadesNoVende ==
    /\ \A k \in 1..Len(Hist2) : RPos(Hist2[k].Cantidad)
    /\ mark2.crypto_balance = R(0)
         => \A c \in MediaVals, m \in MediaVals, l \in MediaVals,
               mp \in PrevVals, lp \in PrevVals, precio \in ReglaPrecios :
               LET d == decidir_con_medias(mark2, R(c), R(m), R(l), R(mp), R(lp), precio)
               IN  /\ SellCondition(R(c), R(m), R(l), R(mp), R(lp))
                        => d = avanzar_hora(mark2)
                   /\ d.historial_operaciones # Hist2
                        => ~EsVenta(d.historial_operaciones[Len(d.historial_operaciones)].Operacion)

C18_Witness ==
    /\ Len(Hist2) >= 2
    /\ EsVenta(Hist2[Len(Hist2)].Operacion)
    /\ mark2.crypto_balance = R(0)
    /\ mark2.current_time > Hist2[Len(Hist2)].Fecha

\* C19: a half buy fires only when last_action is not the half-buy value
\* and a half sell only when it is not the half-sell value, so no two
\* consecutive entries of the ledger are both half buys or both half sells.
C19_MitadesNoSeRepiten ==
    /\ [](\A k \in 1..(Len(Hist2) - 1) :
            /\ ~(Hist2[k].Operacion = "Compra (50%)"
                  /\ Hist2[k + 1].Operacion = "Compra (50%)")
            /\ ~(Hist2[k].Operacion = "Venta (50%)"
                  /\ Hist2[k + 1].Operacion = "Venta (50%)"))
    /\ [][(Hist2 # mark2'.historial_operaciones)
            => /\ New2.Operacion = "Compra (50%)" => mark2.last_action # "buy-50"
               /\ New2.Operacion = "Venta (50%)" => mark2.last_action # "sell-50"]_vars

C19_Witness ==
    \E j \in 1..Len(Hist2), k \in 1..Len(Hist2) :
        /\ j + 1 < k
        /\ Hist2[j].Operacion = Hist2[k].Operacion
        /\ Hist2[j].Operacion \in {"Compra (50%)", "Venta (50%)"}

Min(a, b) == IF a < b THEN a ELSE b

Periodos == {CORTO, MEDIANO, LARGO}

\* C22: calcular_media_movil(k) is None exactly when fewer than k prices
\* are held, and otherwise it is the sum of the last k held prices over k.
C22_MediaMovil ==
    \A k \in Periodos :
        LET held == Len(mark2.prices)
            media == calcular_media_movil(mark2, k)
        IN  /\ (media = None) <=> (held < k)
            /\ held >= k
                 => RMul(media, R(k)) = R(SumSeq(mark2.prices, held - k + 1, held))

C22_Witness ==
    /\ Len(mark2.prices) >= LARGO
    /\ calcular_media_movil(mark2, LARGO) # None
    /\ calcular_media_movil(mark2, CORTO) # calcular_media_movil(mark2, LARGO)
    /\ calcular_media_movil(mark2, MEDIANO) # calcular_media_movil(mark2, LARGO)

(***************************************************************************)
(* Mark4: the RSI sale                                                     *)
(***************************************************************************)
PrecioSerie == serie.fed[Len(serie.fed)]
Hist4 == mark4.historial_operaciones
Rsi4(self) == calcular_rsi(LastK(self.prices, RSI_N))
Corto4(self) == Bot_calcular_media_movil(self, self.corto)
Mediano4(self) == Bot_calcular_media_movil(self, self.mediano)
MediasPresentes4(self) == Corto4(self) # None /\ Mediano4(self) # None

\* the conditions of line 101 on a tick that got past the return of line 93
RsiVende(self) ==
    /\ self.prices # <<>>
    /\ MediasPresentes4(self)
    /\ RGt(Rsi4(self), self.rsi_limit)
    /\ RPos(self.crypto_balance)
    /\ self.last_action # "sell"

Vendido4(antes, despues, precio) ==
    /\ despues.crypto_balance = R(0)
    /\ despues.budget = RMul(antes.crypto_balance, R(precio))
    /\ despues.last_action = "sell"
    /\ Len(despues.historial_operaciones) = Len(antes.historial_operaciones) + 1
    /\ LET e == despues.historial_operaciones[Len(despues.historial_operaciones)]
       IN  e.Operacion = "Venta" /\ e.Precio = precio /\ e.Cantidad = antes.crypto_balance

Comprado4(antes, despues, precio) ==
    /\ despues.budget = R(0)
    /\ despues.crypto_balance = RDiv(antes.budget, R(precio))
    /\ despues.last_action = "buy"
    /\ Len(despues.historial_operaciones) = Len(antes.historial_operaciones) + 1
    /\ despues.historial_operaciones[Len(despues.historial_operaciones)].Operacion = "Compra"

\* C23: on a Mark4 tick with the short and medium averages present, RSI
\* above rsi_limit, units held and last_action not 'sell', the whole
\* position is sold at the current price whatever the averages say; the
\* moving-average rules act only on ticks where that sale does not fire.
C23_RsiVendeTodo ==
    [][(serie.pending /\ mark4.raised = "")
        => IF RsiVende(mark4)
           THEN Vendido4(mark4, mark4', PrecioSerie)
           ELSE IF ~MediasPresentes4(mark4)
           THEN mark4' = mark4
           ELSE IF RGt(Corto4(mark4), Mediano4(mark4)) /\ RPos(mark4.budget)
                   /\ mark4.last_action # "buy"
           THEN Comprado4(mark4, mark4', PrecioSerie)
           ELSE IF RLt(Corto4(mark4), Mediano4(mark4)) /\ RPos(mark4.crypto_balance)
                   /\ mark4.last_action # "sell"
           THEN Vendido4(mark4, mark4', PrecioSerie)
           ELSE mark4' = mark4]_vars

\* the sale of this tick went against the averages
C23_Witness ==
    /\ ~serie.pending
    /\ Len(Hist4) >= 2
    /\ mark4.last_action = "sell"
    /\ Hist4[Len(Hist4)].Operacion = "Venta"
    /\ MediasPresentes4(mark4)
    /\ RGt(Corto4(mark4), Mediano4(mark4))

\* C24: on a Mark4 tick with fewer than 14 prices available the RSI is
\* absent and the RSI sale cannot fire.
C24_RsiAusente ==
    (serie.pending /\ Len(mark4.prices) < RSI_N) => ~RsiVende(mark4)

\* the prices of rsi.py line 1
PreciosRsi == <<100, 102, 101, 104, 103, 105, 106, 107, 106, 108, 110, 109, 111, 112>>

RECURSIVE SumaDeltas(_, _, _)
\* sum over the deltas of lista up to index i of the part with the given sign
SumaDeltas(lista, i, signo) ==
    IF i < 2 THEN 0
    ELSE LET delta == (lista[i] - lista[i - 1]) * signo
         IN  (IF delta > 0 THEN delta ELSE 0) + SumaDeltas(lista, i - 1, signo)

RsiDe(lista) ==
    LET N == Len(lista)
        avg_gain == Rat(SumaDeltas(lista, N, 1), N)
        avg_loss == Rat(SumaDeltas(lista, N, -1), N)
    IN  IF SumaDeltas(lista, N, -1) = 0
        THEN R(100)
        ELSE RSub(R(100), RDiv(R(100), RAdd(R(1), RDiv(avg_gain, avg_loss))))

\* C25: calcular_rsi is 100 - 100 / (1 + RS), RS = average gain over
\* average loss, both sums divided by the same N (the number of prices
\* handed in, 14 for 14 prices); without a negative delta the result is 100.
C25_Rsi ==
    /\ Len(PreciosRsi) = RSI_N
    /\ calcular_rsi(PreciosRsi) = RsiDe(PreciosRsi)
    /\ calcular_rsi(PreciosRsi) = R(80)
    /\ mark4.prices # <<>>
         => LET lista == LastK(mark4.prices, RSI_N)
            IN  /\ calcular_rsi(lista) = RsiDe(lista)
                /\ SumaDeltas(lista, Len(lista), -1) = 0 => calcular_rsi(lista) = R(100)

C25_Witness ==
    /\ Len(mark4.prices) >= 4
    /\ Rsi4(mark4) # R(100)
    /\ Rsi4(mark4) # R(0)
    /\ Rsi4(mark4) # Rat(100, 2)


(***************************************************************************)
(* PerformanceMetrics on the results of a Backtester run.                  *)
(***************************************************************************)
\* the trade list the backtester's results hold
TradesDone == bt.results[1].trades

\* the round trips of a trade list: a buy directly followed by a sell
RoundTrips(trades) ==
    {k \in 1..(Len(trades) - 1) : trades[k].type = "buy" /\ trades[k + 1].type = "sell"}

Pnl(trades, k) == RSub(trades[k + 1].balance, trades[k].balance)

RECURSIVE SumaPnl(_, _, _)
\* sum of the gains (signo = 1) or of the losses (signo = -1) of the round
\* trips that start at an index up to k
SumaPnl(trades, k, signo) ==
    IF k = 0 THEN R(0)
    ELSE LET resto == SumaPnl(trades, k - 1, signo)
             pnl == IF k \in RoundTrips(trades) THEN Pnl(trades, k) ELSE R(0)
         IN  IF signo = 1 /\ RPos(pnl) THEN RAdd(resto, pnl)
             ELSE IF signo = -1 /\ RLt(pnl, R(0)) THEN RSub(resto, pnl)
             ELSE resto

HayPerdida(trades) == \E k \in RoundTrips(trades) : RLt(Pnl(trades, k), R(0))

C27_FactorDeGanancia ==
    \A k \in 1..Len(salidas) :
        salidas[k].profit_factor =
            IF HayPerdida(TradesDone)
            THEN RDiv(SumaPnl(TradesDone, Len(TradesDone), 1),
                      SumaPnl(TradesDone, Len(TradesDone), -1))
            ELSE R(0)

C27_Witness ==
    /\ salidas # <<>>
    /\ HayPerdida(TradesDone)
    /\ RPos(salidas[1].profit_factor)

GananciaSinPerdida ==
    /\ salidas # <<>>
    /\ ~HayPerdida(TradesDone)
    /\ \E k \in RoundTrips(TradesDone) : RPos(Pnl(TradesDone, k))

\* C28: calculate_win_rate returns the number of round trips whose sell
\* balance exceeds the buy balance divided by the number of round trips,
\* every round trip counted once; 0 without a round trip; always in [0, 1].
C28_TasaDeAcierto ==
    \A k \in 1..Len(salidas) :
        LET pares == RoundTrips(TradesDone)
            ganados == {i \in pares : RGt(TradesDone[i + 1].balance, TradesDone[i].balance)}
        IN  /\ salidas[k].win_rate =
                   IF pares = {} THEN R(0)
                   ELSE Rat(Cardinality(ganados), Cardinality(pares))
            /\ ~RLt(salidas[k].win_rate, R(0))
            /\ ~RGt(salidas[k].win_rate, R(1))

C28_Witness ==
    /\ salidas # <<>>
    /\ salidas[1].win_rate = Half


(***************************************************************************)
(* Independent instances.                                                  *)
(***************************************************************************)
RECURSIVE Mark4_solo(_, _)
\* the bot after the driver loop fed it precios, alone
Mark4_solo(bot, precios) ==
    IF precios = <<>> THEN bot
    ELSE LET antes == Mark4_solo(bot, SubSeq(precios, 1, Len(precios) - 1))
             precio == precios[Len(precios)]
             con == Llamar(antes, Bot_agregar_precio(antes, precio))
         IN  Llamar(con, Mark4_tomar_decision(con, precio))

\* the bot alone, up to the call the instance of the pair has reached
BotSolo(i) ==
    LET fed == par.fed[i]
    IN  IF par.pending[i]
        THEN LET antes == Mark4_solo(ParBot(i), SubSeq(fed, 1, Len(fed) - 1))
             IN  Llamar(antes, Bot_agregar_precio(antes, fed[Len(fed)]))
        ELSE Mark4_solo(ParBot(i), fed)

BtSolo(i) ==
    IF par.dfs[i] = <<>> THEN ParBt(i) ELSE run(ParBt(i), par.dfs[i][1])

ResultadoFresco(df, strategy) ==
    Pipeline_run(Pipeline_init, df, strategy, R(Budget0)).devueltos[1].result

\* C30: every run of a pipeline returns the results computed from the frame
\* and the strategy passed to that call, also when the pipeline was run
\* before with other data or another strategy.
C30_RunUsaSusArgumentos ==
    \A k \in 1..Len(pipe.devueltos) :
        pipe.devueltos[k].result =
            ResultadoFresco(pipe.devueltos[k].df, pipe.devueltos[k].strategy)

\* the first run of a pipeline does return the results of its arguments
PrimeraCorridaFresca ==
    pipe.devueltos # <<>> =>
        pipe.devueltos[1].result =
            ResultadoFresco(pipe.devueltos[1].df, pipe.devueltos[1].strategy)


(***************************************************************************)
(* RuleEngine.evaluate.                                                    *)
(***************************************************************************)
\* the results of the engine's rules at the evaluated row
Resultados(e) ==
    {PriceThresholdRule_evaluate(engine.rules[k], e.df, e.row_idx) :
        k \in 1..Len(engine.rules)}

\* C31: evaluate on an engine with at least one rule returns the conjunction
\* of the rules' results at the row under 'AND' and their disjunction under
\* 'OR'; without rules it returns False under either logic.
C31_EvaluateLogica ==
    [][engine'.evaluado # engine.evaluado =>
          LET e == engine'.evaluado[1]
          IN  /\ engine.rules = <<>> => e.result = FALSE
              /\ (engine.rules # <<>> /\ engine.logic = "AND") =>
                     e.result = (Resultados(e) = {TRUE})
              /\ (engine.rules # <<>> /\ engine.logic = "OR") =>
                     e.result = (TRUE \in Resultados(e))]_vars

C31_Witness ==
    /\ engine.evaluado # <<>>
    /\ Len(engine.rules) = MaxRules
    /\ engine.logic = "AND"
    /\ engine.evaluado[1].result = FALSE
    /\ Resultados(engine.evaluado[1]) = {TRUE, FALSE}


(***************************************************************************)
(* AlertManager.                                                           *)
(***************************************************************************)
\* the latest call was op
Llamada(m, op) == m.llamada # <<>> /\ m.llamada[1] = op

\* the positions of the stored alerts that are acknowledged
Reconocidas(m) == {k \in 1..Len(m.alerts) : m.alerts[k].acknowledged}

\* C32: acknowledge_alert(id) flags exactly the stored alert that carries the
\* id (there is at most one) and changes nothing else, silently also for an
\* unknown id; no call clears the flag of an alert that stays stored; and
\* get_alerts(acknowledged=True) returns exactly the acknowledged alerts.
C32_Reconocer ==
    [][
        /\ Llamada(manager', "acknowledge_alert") =>
              LET id == manager'.llamada[2]
              IN  /\ Cardinality({k \in 1..Len(manager.alerts) :
                                     manager.alerts[k].id = id}) <= 1
                  /\ Len(manager'.alerts) = Len(manager.alerts)
                  /\ \A k \in 1..Len(manager.alerts) :
                        manager'.alerts[k] =
                            IF manager.alerts[k].id = id
                            THEN [manager.alerts[k] EXCEPT !.acknowledged = TRUE]
                            ELSE manager.alerts[k]
                  /\ manager'.raised = ""
                  /\ manager'.handlers = manager.handlers
        /\ ~Llamada(manager', "clear_alerts") =>
              /\ Len(manager'.alerts) >= Len(manager.alerts)
              /\ Reconocidas(manager) \subseteq Reconocidas(manager')
        /\ (Llamada(manager', "get_alerts") /\ manager'.llamada[2] = "True") =>
              LET devueltas == manager'.devuelto[1].alerts
              IN  /\ {devueltas[i] : i \in 1..Len(devueltas)} =
                         {manager.alerts[k] : k \in Reconocidas(manager)}
                  /\ Len(devueltas) = Cardinality(Reconocidas(manager))
                  /\ manager'.alerts = manager.alerts
    ]_vars

C32_Witness ==
    /\ Llamada(manager, "acknowledge_alert")
    /\ manager.llamada[2] = 2
    /\ Len(manager.alerts) = MaxAlerts
    /\ Reconocidas(manager) = {2}

C32_WitnessConsulta ==
    /\ Llamada(manager, "get_alerts")
    /\ manager.llamada[2] = "True"
    /\ Len(manager.devuelto[1].alerts) = 2
    /\ Len(manager.alerts) = MaxAlerts

\* C40: create_alert always stores the alert under the next id; on an enabled
\* manager the handlers are invoked in order up to the first that raises,
\* which makes create_alert raise AlertError; on a disabled manager no
\* handler is invoked.
C40_CrearAlerta ==
    [][Llamada(manager', "create_alert") =>
          LET fallan == {k \in 1..Len(manager.handlers) : manager.handlers[k] = "falla"}
          IN  /\ manager'.alerts =
                     Append(manager.alerts,
                            [ id |-> Len(manager.alerts) + 1,
                              severity |-> manager'.llamada[2],
                              acknowledged |-> FALSE ])
              /\ (manager.enabled /\ fallan # {}) =>
                     /\ manager'.raised = "AlertError"
                     /\ \E f \in fallan :
                           /\ \A k \in fallan : f <= k
                           /\ manager'.invocados = SubSeq(manager.handlers, 1, f)
              /\ (manager.enabled /\ fallan = {}) =>
                     /\ manager'.raised = ""
                     /\ manager'.invocados = manager.handlers
              /\ ~manager.enabled =>
                     /\ manager'.raised = ""
                     /\ manager'.invocados = <<>>]_vars

C40_Witness ==
    /\ Llamada(manager, "create_alert")
    /\ manager.enabled
    /\ manager.handlers = <<"falla", "anota">>
    /\ manager.raised = "AlertError"
    /\ manager.invocados = <<"falla">>
    /\ Len(manager.alerts) = 2

C40_WitnessDeshabilitado ==
    /\ Llamada(manager, "create_alert")
    /\ ~manager.enabled
    /\ manager.handlers # <<>>
    /\ manager.alerts # <<>>


(***************************************************************************)
(* Mark2: the average of the tick before.                                  *)
(***************************************************************************)
\* C33: when a price is pushed at a tick t >= 2, calcular_media_movil_prev(k),
\* if present, equals what calcular_media_movil(k) was before the push, which
\* is the mean of the k prices fed up to tick t - 1; it is absent whenever
\* fewer than k + 1 prices are held.
C33_MediaPrevia ==
    /\ [][(mark2'.prices # mark2.prices /\ Len(feed'.fed) >= 2) =>
             \A k \in Periodos :
                 LET prev == calcular_media_movil_prev(mark2', k)
                 IN  prev # None =>
                        /\ prev = calcular_media_movil(mark2, k)
                        /\ prev = MediaFed(k, Fed)]_vars
    /\ [](\A k \in Periodos :
             Len(mark2.prices) < k + 1 => calcular_media_movil_prev(mark2, k) = None)

C33_Witness ==
    /\ Fed > MAXLEN
    /\ feed.pending
    /\ calcular_media_movil_prev(mark2, MEDIANO) # None
    /\ calcular_media_movil_prev(mark2, MEDIANO) = MediaFed(MEDIANO, Fed - 1)
    /\ calcular_media_movil_prev(mark2, MEDIANO) # calcular_media_movil(mark2, MEDIANO)


(***************************************************************************)
(* Backtester: the results against their metrics entry.                    *)
(***************************************************************************)
\* C34: the final_balance inside results['metrics'] equals
\* results['final_balance'], and so total_return_pct equals profit_loss_pct.
C34_MetricasFinalBalance ==
    BtDone =>
        /\ bt.results[1].metrics.final_balance = bt.results[1].final_balance
        /\ bt.results[1].metrics.total_return_pct = bt.results[1].profit_loss_pct

\* without commission and slippage the two do agree
SinCostosCoinciden ==
    (BtDone /\ bt.commission = R(0) /\ bt.slippage = R(0)) =>
        bt.results[1].metrics.final_balance = bt.results[1].final_balance


\* C35: the trade list of a run alternates buy, sell, buy, sell, ... starting
\* with a buy at every moment of the run; the completed list has even length,
\* so every pair at the (0-based) positions (2i, 2i + 1) is a buy and its sell.
C35_OperacionesAlternan ==
    /\ \A k \in 1..Len(bt.trades) :
          bt.trades[k].type = IF k % 2 = 1 THEN "buy" ELSE "sell"
    /\ BtDone =>
          /\ Results.trades = bt.trades
          /\ Len(Results.trades) % 2 = 0
          /\ \A k \in 1..Len(Results.trades) :
                k % 2 = 1 => is_buy_sell_pair(Results.trades, k)

C35_Witness ==
    /\ BtDone
    /\ Len(Results.trades) = 4
    /\ bt.position = 1


\* the sum of the pnl values of a returned trade analysis
SumaPnlAnalisis(a) ==
    IF a = <<>> THEN R(0)
    ELSE RSum([k \in 1..Len(a[1].trade_pairs) |-> a[1].trade_pairs[k].pnl])

\* C36: the round-trip pnl values of get_trade_analysis add up to
\* results['profit_loss'] = final_balance - initial_balance.
C36_SumaPnl ==
    salidas # <<>> =>
        /\ SumaPnlAnalisis(salidas[1].analysis) = Results.profit_loss
        /\ Results.profit_loss = RSub(Results.final_balance, bt.initial_balance)

C36_Witness ==
    /\ salidas # <<>>
    /\ salidas[1].analysis # <<>>
    /\ salidas[1].analysis[1].total_trades = 2
    /\ salidas[1].analysis[1].winning_trades = 1
    /\ Results.profit_loss # R(0)


\* the step appended a sale to the bot's ledger
VentaRegistrada(antes, despues) ==
    /\ Len(despues.historial_operaciones) = Len(antes.historial_operaciones) + 1
    /\ despues.historial_operaciones[Len(despues.historial_operaciones)].Operacion = "Venta"

\* the accumulated result and the return agree with the budget
ResultadoAlDia(self) ==
    /\ self.ganancia_perdida_acumulada = RSub(self.budget, self.budget_inicial)
    /\ self.rendimiento_porcentaje =
           RDiv(RSub(self.budget, self.budget_inicial), self.budget_inicial)

Alterna(h) ==
    \A k \in 1..Len(h) : h[k].Operacion = IF k % 2 = 1 THEN "Compra" ELSE "Venta"

Operacion(t) == [type |-> t.type, price |-> t.price, balance |-> t.balance]

\* the same of an entry of the pipeline, whose price is the close itself
OperacionPipe(t) == [type |-> t.type, price |-> R(t.price), balance |-> t.balance]

Operaciones(trades) == [k \in 1..Len(trades) |-> Operacion(trades[k])]

OperacionesPipe(trades) == [k \in 1..Len(trades) |-> OperacionPipe(trades[k])]

SinCostos == bt.commission = R(0) /\ bt.slippage = R(0)

\* the pipeline's locals after the first k rows of the table
LocalesTras(df, k, initial_balance) ==
    pipeline_loop(SubSeq(df, 1, k), 1,
        [ balance |-> initial_balance,
          crypto_balance |-> R(0),
          trades |-> <<>>,
          position |-> 0,
          trade_history |-> <<>> ])

\* C38: on the same signal table and initial balance a fresh
\* StrategyPipeline.execute_strategy and a Backtester with commission =
\* slippage = 0 hold the same cash, units and position after every row and
\* return the same final_balance; the Backtester's trades are the
\* pipeline's, followed by one closing sell exactly when the table ends
\* with an open position.
C38_MismaEjecucion ==
    /\ SinCostos /\ bt.pc = "loop" =>
          LET loc == LocalesTras(bt.df, bt.i - 1, bt.initial_balance)
          IN  /\ loc.balance = bt.balance
              /\ loc.crypto_balance = bt.crypto_balance
              /\ loc.position = bt.position
              /\ OperacionesPipe(loc.trades) = Operaciones(bt.trades)
    /\ SinCostos /\ pipe.devueltos # <<>> =>
          LET res == pipe.devueltos[1].result
              abierta == pipe.objetos[pipe.strategy[1].name].position = 1
              n == Len(res.trades)
          IN  /\ res.final_balance = Results.final_balance
              /\ SubSeq(Operaciones(Results.trades), 1, n) = OperacionesPipe(res.trades)
              /\ Len(Results.trades) = IF abierta THEN n + 1 ELSE n
              /\ abierta =>
                    Operacion(Results.trades[n + 1]) =
                        [ type |-> "sell",
                          price |-> R(bt.df[Len(bt.df)].close_price),
                          balance |-> res.final_balance ]

C38_Witness ==
    /\ SinCostos
    /\ pipe.devueltos # <<>>
    /\ Len(pipe.devueltos[1].result.trades) = 3
    /\ Len(Results.trades) = 4
    /\ Results.final_balance # bt.initial_balance

EquivCerrada ==
    /\ SinCostos
    /\ pipe.devueltos # <<>>
    /\ Len(pipe.devueltos[1].result.trades) = 2
    /\ Len(Results.trades) = 2
    /\ Results.final_balance # bt.initial_balance

====
